---- MODULE Spec2Model ----
(***************************************************************************)
(* Model of the transformation pipeline of autots/tools/transform.py:      *)
(* the transformer classes, the module-level catalogs (trans_dict,         *)
(* have_params) and the GeneralTransformer orchestrator that chains them.  *)
(*                                                                         *)
(* Numbers are exact rationals <<n, d>> with d > 0 in lowest terms; the    *)
(* pair <<0, 0>> is NaN.  A frame (pandas.DataFrame) is a sequence of      *)
(* rows, a row a sequence of numbers, one per column.                      *)
(***************************************************************************)
EXTENDS Integers, Sequences, FiniteSets, TLC

\* ------------------------------------------------------------------------
\* Bounds of the model
\* ------------------------------------------------------------------------
MaxRows == 3

\* cell values the input frames are drawn from (integers, zero and a
\* negative value included)
CellValues == {-1, 0, 2}

\* ------------------------------------------------------------------------
\* Exact arithmetic with NaN (numpy float semantics without rounding)
\* ------------------------------------------------------------------------
NaN == <<0, 0>>

IsNaN(x) == x[2] = 0

Abs(n) == IF n < 0 THEN -n ELSE n

RECURSIVE Gcd(_, _)
Gcd(a, b) == IF b = 0 THEN a ELSE Gcd(b, a % b)

Norm(n, d) ==
  IF d = 0 THEN NaN
  ELSE LET s == IF d < 0 THEN -1 ELSE 1
           g == Gcd(Abs(n), Abs(d))
       IN  <<(s * n) \div g, (s * d) \div g>>

R(n) == <<n, 1>>

RAdd(x, y) == IF IsNaN(x) \/ IsNaN(y) THEN NaN
              ELSE Norm(x[1] * y[2] + y[1] * x[2], x[2] * y[2])

RNeg(x) == IF IsNaN(x) THEN NaN ELSE <<-x[1], x[2]>>

RSub(x, y) == RAdd(x, RNeg(y))

RMul(x, y) == IF IsNaN(x) \/ IsNaN(y) THEN NaN
              ELSE Norm(x[1] * y[1], x[2] * y[2])

\* x / y; a zero divisor gives NaN. A non-zero number is divided by zero
\* only in CenterLastValue.transform with a zero center, where pandas
\* gives an infinity: the model reads nothing from that cell but its
\* product with the zero center, which is NaN for an infinity as well.
RDiv(x, y) == IF IsNaN(x) \/ IsNaN(y) \/ y[1] = 0 THEN NaN
              ELSE Norm(x[1] * y[2], x[2] * y[1])

RAbs(x) == IF IsNaN(x) THEN NaN ELSE <<Abs(x[1]), x[2]>>

\* comparisons are FALSE when either side is NaN, as in numpy
RLt(x, y) == ~IsNaN(x) /\ ~IsNaN(y) /\ x[1] * y[2] < y[1] * x[2]

RLe(x, y) == ~IsNaN(x) /\ ~IsNaN(y) /\ x[1] * y[2] <= y[1] * x[2]

IsZero(x) == ~IsNaN(x) /\ x[1] = 0

\* ------------------------------------------------------------------------
\* Column (pandas.Series along the rows) helpers
\* ------------------------------------------------------------------------
RECURSIVE SumSkipNa(_)
SumSkipNa(c) ==
  IF c = <<>> THEN R(0)
  ELSE IF IsNaN(Head(c)) THEN SumSkipNa(Tail(c))
  ELSE RAdd(Head(c), SumSkipNa(Tail(c)))

NonNa(c) == SelectSeq(c, LAMBDA x : ~IsNaN(x))

\* Series.mean(skipna=True): NaN for an empty or all-NaN column
MeanSkipNa(c) ==
  IF NonNa(c) = <<>> THEN NaN ELSE RDiv(SumSkipNa(c), R(Len(NonNa(c))))

\* Series.min(skipna=True)
RECURSIVE MinSkipNa(_)
MinSkipNa(c) ==
  IF c = <<>> THEN NaN
  ELSE LET m == MinSkipNa(Tail(c))
       IN  IF IsNaN(Head(c)) THEN m
           ELSE IF IsNaN(m) \/ RLt(Head(c), m) THEN Head(c) ELSE m

\* np.nanmax of a column
RECURSIVE MaxSkipNa(_)
MaxSkipNa(c) ==
  IF c = <<>> THEN NaN
  ELSE LET m == MaxSkipNa(Tail(c))
       IN  IF IsNaN(Head(c)) THEN m
           ELSE IF IsNaN(m) \/ RLt(m, Head(c)) THEN Head(c) ELSE m

\* number of non-NaN entries strictly below x, and equal to x
CountLt(c, x) == Cardinality({t \in 1..Len(c) : RLt(c[t], x)})

CountEq(c, x) == Cardinality({t \in 1..Len(c) : ~IsNaN(c[t]) /\ c[t] = x})

\* the k-th smallest (1-based) non-NaN entry of c
Kth(c, k) ==
  LET v == NonNa(c)
  IN  v[CHOOSE t \in 1..Len(v) :
          CountLt(v, v[t]) < k /\ k <= CountLt(v, v[t]) + CountEq(v, v[t])]

\* Series.median(skipna=True)
MedianSkipNa(c) ==
  LET n == Len(NonNa(c))
  IN  IF n = 0 THEN NaN
      ELSE IF n % 2 = 1 THEN Kth(c, (n + 1) \div 2)
      ELSE RDiv(RAdd(Kth(c, n \div 2), Kth(c, n \div 2 + 1)), R(2))

\* Series.shift(1)
Shift1(c) == [t \in 1..Len(c) |-> IF t = 1 THEN NaN ELSE c[t - 1]]

\* Series.fillna(method="bfill"): next valid observation fills the gap
RECURSIVE BfillCol(_)
BfillCol(c) ==
  IF c = <<>> THEN <<>>
  ELSE LET rest == BfillCol(Tail(c))
       IN  IF IsNaN(Head(c)) /\ rest # <<>> THEN <<Head(rest)>> \o rest
           ELSE <<Head(c)>> \o rest

\* Series.fillna(method="ffill")
RECURSIVE FfillFrom(_, _)
FfillFrom(c, prev) ==
  IF c = <<>> THEN <<>>
  ELSE LET x == IF IsNaN(Head(c)) THEN prev ELSE Head(c)
       IN  <<x>> \o FfillFrom(Tail(c), x)

FfillCol(c) == FfillFrom(c, NaN)

\* Series.cumsum(skipna=True): NaN entries stay NaN and are skipped
RECURSIVE CumSumFrom(_, _)
CumSumFrom(c, acc) ==
  IF c = <<>> THEN <<>>
  ELSE IF IsNaN(Head(c)) THEN <<NaN>> \o CumSumFrom(Tail(c), acc)
  ELSE <<RAdd(acc, Head(c))>> \o CumSumFrom(Tail(c), RAdd(acc, Head(c)))

CumSumCol(c) == CumSumFrom(c, R(0))

\* Series.cumprod(skipna=True)
RECURSIVE CumProdFrom(_, _)
CumProdFrom(c, acc) ==
  IF c = <<>> THEN <<>>
  ELSE IF IsNaN(Head(c)) THEN <<NaN>> \o CumProdFrom(Tail(c), acc)
  ELSE <<RMul(acc, Head(c))>> \o CumProdFrom(Tail(c), RMul(acc, Head(c)))

CumProdCol(c) == CumProdFrom(c, R(1))

\* ------------------------------------------------------------------------
\* Frame (pandas.DataFrame) helpers
\* ------------------------------------------------------------------------
NRows(df) == Len(df)

NCols(df) == IF df = <<>> THEN 0 ELSE Len(df[1])

Col(df, j) == [t \in 1..Len(df) |-> df[t][j]]

\* apply a column operation to every column
MapCols(Op(_), df) ==
  IF df = <<>> THEN <<>>
  ELSE LET cols == [j \in 1..NCols(df) |-> Op(Col(df, j))]
       IN  [t \in 1..Len(cols[1]) |-> [j \in 1..NCols(df) |-> cols[j][t]]]

\* reduce every column to one number: the result is a row (pandas.Series
\* indexed by the columns)
ReduceCols(Op(_), df) == [j \in 1..NCols(df) |-> Op(Col(df, j))]

\* cell-wise operation of two frames of the same shape
Zip(Op(_, _), a, b) ==
  [t \in 1..Len(a) |-> [j \in 1..Len(a[t]) |-> Op(a[t][j], b[t][j])]]

\* cell-wise operation of a frame with a row broadcast over the rows
ZipRow(Op(_, _), a, r) ==
  [t \in 1..Len(a) |-> [j \in 1..Len(a[t]) |-> Op(a[t][j], r[j])]]

MapCells(Op(_), a) ==
  [t \in 1..Len(a) |-> [j \in 1..Len(a[t]) |-> Op(a[t][j])]]

\* DataFrame.tail(n): the last n rows; a negative n drops the first -n rows
DfTail(df, n) ==
  LET len == Len(df)
      from == IF n >= 0 THEN (IF n >= len THEN 1 ELSE len - n + 1)
              ELSE (IF -n >= len THEN len + 1 ELSE -n + 1)
  IN  IF n = 0 THEN <<>> ELSE SubSeq(df, from, len)

\* DataFrame.head(n): the first n rows; a negative n drops the last -n rows
DfHead(df, n) ==
  LET len == Len(df)
      to == IF n >= 0 THEN (IF n >= len THEN len ELSE n)
            ELSE (IF -n >= len THEN 0 ELSE len + n)
  IN  SubSeq(df, 1, to)

\* a row widened to w columns, the new cells NaN
PadRow(r, w) == [j \in 1..w |-> IF j <= Len(r) THEN r[j] ELSE NaN]

Max(a, b) == IF a >= b THEN a ELSE b

Min(a, b) == IF a <= b THEN a ELSE b

\* pd.concat([a, b], axis=0): rows of a then rows of b over the union of the
\* columns (columns are labelled by position), missing cells NaN
Concat(a, b) ==
  LET w == Max(NCols(a), NCols(b))
  IN  [t \in 1..(Len(a) + Len(b)) |->
         IF t <= Len(a) THEN PadRow(a[t], w) ELSE PadRow(b[t - Len(a)], w)]

\* a + b of two rows (pandas.Series aligned on the column labels)
AddRows(a, b) ==
  LET w == Max(Len(a), Len(b))
  IN  [j \in 1..w |-> RAdd(PadRow(a, w)[j], PadRow(b, w)[j])]

HasNaN(df) == \E t \in 1..Len(df) : \E j \in 1..Len(df[t]) : IsNaN(df[t][j])

\* DataFrame.mean(axis=1): one mean per row
RowMeans(df) == [t \in 1..Len(df) |-> MeanSkipNa(df[t])]

\* a frame from integer rows
IntFrame(rows) ==
  [t \in 1..Len(rows) |-> [j \in 1..Len(rows[t]) |-> R(rows[t][j])]]

\* ------------------------------------------------------------------------
\* Transformer objects
\* ------------------------------------------------------------------------
\* constructor arguments; every class reads the ones it declares
\* (slice is Slice's method argument in parsed form; std_threshold a number)
DefaultParams ==
  [window |-> 10, fixed |-> FALSE, lag_1 |-> 7, method |-> "LastValue",
   rows |-> 1, lag |-> 1, strength |-> R(1), first_value_only |-> FALSE,
   center_one |-> TRUE, squared |-> FALSE, log |-> FALSE,
   decimals |-> 0, on_transform |-> FALSE, on_inverse |-> TRUE,
   std_threshold |-> R(4), slice |-> [form |-> "int", n |-> 100],
   impact |-> "None", remove_excess_anomalies |-> TRUE,
   discretization |-> "center", n_bins |-> 10]

\* a transformer object right after construction: no fitted attribute set.
\* src is a history mark: the frame given to the GeneralTransformer fit
\* call that last fitted this object.
NewStep(cls, p) ==
  [cls |-> cls, p |-> p, fitted |-> FALSE, src |-> <<>>,
   first_values |-> <<>>, last_values |-> <<>>, last_rolling |-> <<>>,
   tile_values_lag_1 |-> <<>>, means |-> <<>>, mean_last |-> NaN,
   center |-> <<>>, shift_amount |-> <<>>, df_std2 |-> <<>>,
   df_mean |-> <<>>, medians |-> <<>>, components_ |-> <<>>,
   columns |-> 0, transformer |-> "unset", holiday |-> FALSE,
   data_min_ |-> <<>>, scale_ |-> <<>>, bins |-> <<>>]

\* the outcome of a method call: the frame returned or the exception
\* raised, and the object after the call
Ok(st, df) == [ok |-> TRUE, err |-> "", st |-> st, df |-> df]

Raise(st, msg) == [ok |-> FALSE, err |-> msg, st |-> st, df |-> <<>>]

\* ---- EmptyTransformer ----
EmptyTransformer_fit_transform(st, df) == Ok([st EXCEPT !.fitted = TRUE], df)

EmptyTransformer_transform(st, df) == Ok(st, df)

EmptyTransformer_inverse_transform(st, df, trans_method) == Ok(st, df)

\* ---- DifferencedTransformer (lag = 1) ----
DifferencedTransformer_fit(st, df) ==
  [st EXCEPT !.fitted = TRUE,
             !.last_values = DfTail(df, 1),
             !.first_values = DfHead(df, 1)]

DiffCol(c) == [t \in 1..Len(c) |-> RSub(c[t], Shift1(c)[t])]

DiffBfillCol(c) == BfillCol(DiffCol(c))

DifferencedTransformer_transform(st, df) == Ok(st, MapCols(DiffBfillCol, df))

DifferencedTransformer_fit_transform(st, df) ==
  DifferencedTransformer_transform(DifferencedTransformer_fit(st, df), df)

DifferencedTransformer_inverse_transform(st, df, trans_method) ==
  IF ~st.fitted THEN Raise(st, "AttributeError")
  ELSE IF trans_method = "original"
  THEN Ok(st, MapCols(CumSumCol,
                      Concat(st.first_values, DfTail(df, NRows(df) - 1))))
  ELSE LET full == Concat(st.last_values, df)
       IN  IF HasNaN(full)
           THEN Raise(st, "NaN in DifferencedTransformer.inverse_transform")
           ELSE Ok(st, DfTail(MapCols(CumSumCol, full), NRows(df)))

\* ---- CumSumTransformer ----
CumSumTransformer_fit(st, df) ==
  [st EXCEPT !.fitted = TRUE,
             !.last_values = DfTail(df, 1),
             !.first_values = DfHead(df, 1)]

CumSumTransformer_transform(st, df) == Ok(st, MapCols(CumSumCol, df))

CumSumTransformer_fit_transform(st, df) ==
  CumSumTransformer_transform(CumSumTransformer_fit(st, df), df)

CumSumTransformer_inverse_transform(st, df, trans_method) ==
  IF ~st.fitted THEN Raise(st, "AttributeError")
  ELSE IF trans_method = "original"
  THEN Ok(st, Concat(st.first_values,
                     DfTail(MapCols(DiffCol, df), NRows(df) - 1)))
  ELSE Ok(st, DfTail(MapCols(DiffCol, Concat(st.last_values, df)),
                     NRows(df)))

\* ---- PctChangeTransformer ----
\* df.replace([0], nan).fillna(df[df != 0].abs().min(axis=0)).fillna(0.1)
NonZeroAbsMin(c) ==
  MinSkipNa([t \in 1..Len(c) |-> IF IsZero(c[t]) THEN NaN ELSE RAbs(c[t])])

ReplaceZeroCol(c) ==
  LET m == NonZeroAbsMin(c)
      fill == IF IsNaN(m) THEN <<1, 10>> ELSE m
  IN  [t \in 1..Len(c) |-> IF IsZero(c[t]) \/ IsNaN(c[t]) THEN fill ELSE c[t]]

PctChangeTransformer_fit(st, df) ==
  LET temp == MapCols(ReplaceZeroCol, df)
  IN  [st EXCEPT !.fitted = TRUE,
                 !.last_values = DfTail(temp, 1),
                 !.first_values = DfHead(temp, 1)]

\* pct_change(periods=1, fill_method="ffill").fillna(0), infinities to 0
PctCol(c) ==
  LET f == FfillCol(c)
  IN  [t \in 1..Len(c) |->
         IF t = 1 \/ IsNaN(f[t]) \/ IsNaN(f[t - 1]) \/ IsZero(f[t - 1])
         THEN R(0)
         ELSE RSub(RDiv(f[t], f[t - 1]), R(1))]

PctChangeCol(c) == PctCol(ReplaceZeroCol(c))

PctChangeTransformer_transform(st, df) == Ok(st, MapCols(PctChangeCol, df))

PctChangeTransformer_fit_transform(st, df) ==
  PctChangeTransformer_transform(PctChangeTransformer_fit(st, df), df)

PlusOneCol(c) == ReplaceZeroCol([t \in 1..Len(c) |-> RAdd(c[t], R(1))])

PctChangeTransformer_inverse_transform(st, df, trans_method) ==
  IF ~st.fitted THEN Raise(st, "AttributeError")
  ELSE LET d == MapCols(PlusOneCol, df)
       IN  IF trans_method = "original"
           THEN Ok(st, MapCols(CumProdCol,
                               Concat(st.first_values, DfTail(d, NRows(d) - 1))))
           ELSE Ok(st, DfTail(MapCols(CumProdCol, Concat(st.last_values, d)),
                              NRows(d)))

\* ---- MeanDifference (lag = 1) ----
MeanDifference_fit(st, df) ==
  LET m == RowMeans(df)
  IN  [st EXCEPT !.fitted = TRUE,
                 !.means = m,
                 !.mean_last = IF m = <<>> THEN NaN ELSE m[Len(m)]]

\* df - shifted[..., None]: row t less the t-th entry of the shifted means
SubShifted(df, m) ==
  [t \in 1..Len(df) |-> [j \in 1..Len(df[t]) |-> RSub(df[t][j], Shift1(m)[t])]]

MeanDifference_transform(st, df) ==
  Ok(st, MapCols(BfillCol, SubShifted(df, RowMeans(df))))

\* fit_transform subtracts the stored fit means instead of calling transform
MeanDifference_fit_transform(st, df) ==
  LET s2 == MeanDifference_fit(st, df)
  IN  Ok(s2, MapCols(BfillCol, SubShifted(df, s2.means)))

\* the forecast branch: row by row, each row plus the mean of the row
\* rebuilt before it
RECURSIVE MeanDifferenceForecast(_, _)
MeanDifferenceForecast(df, last_vals) ==
  IF df = <<>> THEN <<>>
  ELSE LET row == [j \in 1..Len(Head(df)) |-> RAdd(Head(df)[j], last_vals)]
       IN  <<row>> \o MeanDifferenceForecast(Tail(df), MeanSkipNa(row))

MeanDifference_inverse_transform(st, df, trans_method) ==
  IF ~st.fitted THEN Raise(st, "AttributeError")
  ELSE IF trans_method = "original"
  THEN IF Len(st.means) = NRows(df)
       THEN Ok(st, [t \in 1..Len(df) |->
                      [j \in 1..Len(df[t]) |->
                         RAdd(df[t][j], Shift1(st.means)[t])]])
       ELSE IF Len(st.means) = 1
       THEN Ok(st, MapCells(LAMBDA x : NaN, df))
       ELSE Raise(st, "ValueError: operands could not be broadcast")
  ELSE LET out == MeanDifferenceForecast(df, st.mean_last)
       IN  IF HasNaN(out)
           THEN Raise(st, "NaN in MeanDifference.inverse_transform")
           ELSE Ok(st, out)

\* ---- SeasonalDifference ----
CeilDiv(a, b) == (a + b - 1) \div b

\* np.tile(arange(lag), ceil(n / lag))[-n:]: the phase of row t of n rows
TileIndex(t, n, lag) == ((lag * CeilDiv(n, lag) - n) + (t - 1)) % lag

\* groupby(level=0).mean(): one row per phase present, phases ascending
PhaseRows(df, lag, ph) ==
  SelectSeq([t \in 1..Len(df) |-> <<TileIndex(t, Len(df), lag), df[t]>>],
            LAMBDA e : e[1] = ph)

RECURSIVE GroupFrom(_, _, _, _)
GroupFrom(Op(_), df, lag, ph) ==
  IF ph >= lag THEN <<>>
  ELSE LET rows == PhaseRows(df, lag, ph)
           grp == [k \in 1..Len(rows) |-> rows[k][2]]
       IN  (IF rows = <<>> THEN <<>> ELSE <<ReduceCols(Op, grp)>>)
           \o GroupFrom(Op, df, lag, ph + 1)

SeasonalDifference_fit(st, df) ==
  [st EXCEPT !.fitted = TRUE,
             !.tile_values_lag_1 =
                IF st.p.method = "Mean" THEN GroupFrom(MeanSkipNa, df, st.p.lag_1, 0)
                ELSE IF st.p.method = "Median"
                THEN GroupFrom(MedianSkipNa, df, st.p.lag_1, 0)
                ELSE DfTail(df, st.p.lag_1)]

\* np.tile(tile_values, (ceil(df_len / tile_len), 1))
Tiled(tile, df_len) ==
  [t \in 1..(Len(tile) * CeilDiv(df_len, Len(tile))) |->
     tile[((t - 1) % Len(tile)) + 1]]

\* the tile laid from the first row of df on, where transform lays it to
\* end on the last row
SeasonalHeadAligned(st, df) ==
  IF ~st.fitted THEN Raise(st, "AttributeError")
  ELSE IF st.tile_values_lag_1 = <<>> THEN Raise(st, "ZeroDivisionError")
  ELSE IF NCols(st.tile_values_lag_1) # NCols(df)
  THEN Raise(st, "ValueError: Length mismatch")
  ELSE Ok(st, Zip(RSub, df, DfHead(Tiled(st.tile_values_lag_1, NRows(df)),
                                   NRows(df))))

SeasonalDifference_transform(st, df) ==
  IF ~st.fitted THEN Raise(st, "AttributeError")
  ELSE IF st.tile_values_lag_1 = <<>> THEN Raise(st, "ZeroDivisionError")
  ELSE IF NCols(st.tile_values_lag_1) # NCols(df)
  THEN Raise(st, "ValueError: Length mismatch")
  ELSE Ok(st, Zip(RSub, df, DfTail(Tiled(st.tile_values_lag_1, NRows(df)),
                                   NRows(df))))

SeasonalDifference_fit_transform(st, df) ==
  SeasonalDifference_transform(SeasonalDifference_fit(st, df), df)

SeasonalDifference_inverse_transform(st, df, trans_method) ==
  IF ~st.fitted THEN Raise(st, "AttributeError")
  ELSE IF st.tile_values_lag_1 = <<>> THEN Raise(st, "ZeroDivisionError")
  ELSE IF NCols(st.tile_values_lag_1) # NCols(df)
  THEN Raise(st, "ValueError: Length mismatch")
  ELSE LET sdf == Tiled(st.tile_values_lag_1, NRows(df))
       IN  Ok(st, Zip(RAdd, df,
                      IF trans_method = "original" THEN DfTail(sdf, NRows(df))
                      ELSE DfHead(sdf, NRows(df))))

\* ---- RollingMeanTransformer ----
\* Series.rolling(window, min_periods=1).mean()
RollingCol(c, window) ==
  [t \in 1..Len(c) |-> MeanSkipNa(SubSeq(c, Max(1, t - window + 1), t))]

Rolling(df, window) ==
  IF df = <<>> THEN <<>>
  ELSE [t \in 1..Len(df) |->
          [j \in 1..NCols(df) |-> RollingCol(Col(df, j), window)[t]]]

FfillBfillCol(c) == BfillCol(FfillCol(c))

RollingMeanTransformer_fit(st, df) ==
  [st EXCEPT !.fitted = TRUE,
             !.last_values = MapCols(FfillBfillCol, DfTail(df, st.p.window)),
             !.first_values = MapCols(FfillBfillCol, DfHead(df, st.p.window)),
             !.last_rolling =
                DfTail(Rolling(DfTail(df, st.p.window + 1), st.p.window), 1)]

RollingMeanTransformer_transform(st, df) == Ok(st, Rolling(df, st.p.window))

RollingMeanTransformer_fit_transform(st, df) ==
  RollingMeanTransformer_transform(RollingMeanTransformer_fit(st, df), df)

\* (df - df.shift(1)) * window
DiffTimes(df, window) ==
  MapCells(LAMBDA x : RMul(x, R(window)), MapCols(DiffCol, df))

\* the loop of inverse_transform: row n of diffed plus row n of staged is
\* appended to staged
RECURSIVE Restage(_, _, _)
Restage(staged, diffed, n) ==
  IF n > Len(diffed) THEN staged
  ELSE Restage(staged \o <<AddRows(diffed[n], staged[n])>>, diffed, n + 1)

\* with a trans_method other than 'original' and 'forecast' the method runs
\* off its end and returns None, here the empty frame
RollingMeanTransformer_inverse_transform(st, df, trans_method) ==
  IF st.p.fixed THEN Ok(st, df)
  ELSE IF ~st.fitted THEN Raise(st, "AttributeError")
  ELSE IF trans_method = "original"
  THEN LET diffed == DfTail(DiffTimes(df, st.p.window), NRows(df) - st.p.window)
       IN  IF diffed # <<>> /\ NCols(st.first_values) > NCols(diffed)
           THEN Raise(st, "ValueError: Shape of passed values")
           ELSE Ok(st, Restage(st.first_values, diffed, 1))
  ELSE IF trans_method = "forecast"
  THEN LET full == Concat(st.last_rolling, df)
           diffed == DfTail(DiffTimes(full, st.p.window), NRows(full) - 1)
       IN  IF diffed # <<>> /\ NCols(st.last_values) > NCols(df)
           THEN Raise(st, "ValueError: Shape of passed values")
           ELSE Ok(st, DfTail(Restage(st.last_values, diffed, 1), Len(diffed)))
  ELSE Ok(st, <<>>)

\* ---- CenterLastValue ----
CenterLastValue_fit(st, df) ==
  LET raw == ReduceCols(MeanSkipNa, DfTail(df, st.p.rows))
      med(c) == MedianSkipNa([t \in 1..Len(c) |->
                                 IF IsZero(c[t]) THEN NaN ELSE c[t]])
      surrogate == [j \in 1..NCols(df) |->
                      IF IsNaN(med(Col(df, j))) THEN R(1) ELSE med(Col(df, j))]
  IN  [st EXCEPT !.fitted = TRUE,
                 !.center = [j \in 1..Len(raw) |->
                               IF IsZero(raw[j]) \/ IsNaN(raw[j])
                               THEN surrogate[j] ELSE raw[j]]]

\* a frame and a row combined column by column, aligned on the labels:
\* a column only one side has is NaN
AlignRow(Op(_, _), df, r) ==
  LET w == Max(NCols(df), Len(r))
  IN  [t \in 1..Len(df) |->
         [j \in 1..w |-> Op(PadRow(df[t], w)[j], PadRow(r, w)[j])]]

CenterLastValue_transform(st, df) ==
  IF ~st.fitted THEN Raise(st, "AttributeError")
  ELSE Ok(st, AlignRow(RDiv, df, st.center))

CenterLastValue_fit_transform(st, df) ==
  CenterLastValue_transform(CenterLastValue_fit(st, df), df)

\* an inverse that does not multiply the center back
CenterNotRestored(st, df, trans_method) ==
  IF ~st.fitted THEN Raise(st, "AttributeError") ELSE Ok(st, df)

CenterLastValue_inverse_transform(st, df, trans_method) ==
  IF ~st.fitted THEN Raise(st, "AttributeError")
  ELSE Ok(st, AlignRow(RMul, df, st.center))

\* ---- PositiveShift ----
\* A logarithm that is no rational is kept by its argument, <<n, d, 1>> for
\* log(n / d); np.exp gives the argument back. The model takes np.exp only
\* of what np.log returned.
np_log(x) ==
  IF IsNaN(x) \/ x[1] <= 0 THEN NaN
  ELSE IF x = R(1) THEN R(0)
  ELSE <<x[1], x[2], 1>>

np_exp(y) ==
  IF IsNaN(y) THEN NaN
  ELSE IF y = R(0) THEN R(1)
  ELSE <<y[1], y[2]>>

PositiveShift_fit(st, df) ==
  LET amount(c) == IF st.p.log \/ st.p.center_one
                   THEN RSub(MinSkipNa(c), R(1)) ELSE MinSkipNa(c)
      keep(x) == IF RLt(x, R(0)) THEN RAbs(x) ELSE R(0)
  IN  [st EXCEPT !.fitted = TRUE,
                 !.shift_amount = [j \in 1..NCols(df) |-> keep(amount(Col(df, j)))]]

PositiveShift_squared(st, df) ==
  IF st.p.squared THEN MapCells(LAMBDA x : RMul(x, x), df) ELSE df

PositiveShift_transform(st, df) ==
  IF ~st.fitted THEN Raise(st, "AttributeError")
  ELSE Ok(st, IF st.p.log
              THEN MapCells(np_log,
                     PositiveShift_squared(st, AlignRow(RAdd, df, st.shift_amount)))
              ELSE PositiveShift_squared(st, AlignRow(RAdd, df, st.shift_amount)))

PositiveShift_fit_transform(st, df) ==
  PositiveShift_transform(PositiveShift_fit(st, df), df)

\* the root of a perfect square (df ** 0.5 of a squared value)
ISqrt(n) == CHOOSE r \in 0..n : r * r = n

RSqrt(x) == IF IsNaN(x) \/ x[1] < 0 THEN NaN ELSE <<ISqrt(x[1]), ISqrt(x[2])>>

PositiveShift_rooted(st, df) ==
  IF st.p.squared THEN MapCells(RSqrt, df) ELSE df

\* the shift taken off before the root
PositiveShift_inverse_shift_first(st, df) ==
  IF ~st.fitted THEN Raise(st, "AttributeError")
  ELSE Ok(st, PositiveShift_rooted(st,
                AlignRow(RSub, IF st.p.log THEN MapCells(np_exp, df) ELSE df,
                         st.shift_amount)))

PositiveShift_inverse_transform(st, df) ==
  IF ~st.fitted THEN Raise(st, "AttributeError")
  ELSE Ok(st, AlignRow(RSub,
                PositiveShift_rooted(st,
                  IF st.p.log THEN MapCells(np_exp, df) ELSE df),
                st.shift_amount))

\* ---- Round ----
RECURSIVE Pow10(_)
Pow10(k) == IF k = 0 THEN 1 ELSE 10 * Pow10(k - 1)

\* numpy rounds halves to the even neighbour
RoundInt(x) ==
  LET fl == x[1] \div x[2]
      twice == 2 * (x[1] - fl * x[2])
  IN  IF twice < x[2] THEN fl
      ELSE IF twice > x[2] THEN fl + 1
      ELSE IF fl % 2 = 0 THEN fl ELSE fl + 1

RRound(x, decimals) ==
  IF IsNaN(x) THEN NaN
  ELSE IF decimals >= 0
  THEN RDiv(R(RoundInt(RMul(x, R(Pow10(decimals))))), R(Pow10(decimals)))
  ELSE RMul(R(RoundInt(RDiv(x, R(Pow10(-decimals))))), R(Pow10(-decimals)))

Round_fit_transform(st, df) ==
  Ok([st EXCEPT !.fitted = TRUE],
     IF st.p.on_transform THEN MapCells(LAMBDA x : RRound(x, st.p.decimals), df)
     ELSE df)

Round_transform(st, df) ==
  Ok(st, IF st.p.on_transform
         THEN MapCells(LAMBDA x : RRound(x, st.p.decimals), df) ELSE df)

Round_inverse_transform(st, df, trans_method) ==
  Ok(st, IF st.p.on_inverse
         THEN MapCells(LAMBDA x : RRound(x, st.p.decimals), df) ELSE df)

\* ---- Slice ----
\* The method argument in parsed form, with forecast_length beside it:
\*   "None"            None or 'None'
\*   "int"             n or 'n', a number >= 1
\*   "neg"             '-n', a number <= -1
\*   "frac"            '0.n', the fraction frac[1] / frac[2]
\*   "HalfMax"
\*   "forecastlength"  a string holding 'forecastlength' in any case, digits
\*                     being its digit characters in order
\* An integer n >= 1 is written [form |-> "int", n |-> n].
SliceMethod(form, n, frac, digits, forecast_length) ==
  [form |-> form, n |-> n, frac |-> frac, digits |-> digits,
   forecast_length |-> forecast_length]

\* int(df.shape[0] * abs(method)) for the fraction method
ShareOfRows(df, frac) == (NRows(df) * frac[1]) \div frac[2]

\* len_int taken as the whole number the digits spell
AllDigits(digits) ==
  IF Len(digits) = 1 THEN digits[1] ELSE 10 * digits[1] + digits[2]

\* len_int = int([x for x in str(method) if x.isdigit()][0]): the first
\* digit character
len_int(digits) == digits[1]

\* the [0] of an empty list of digits raises IndexError
simple_context_slicer_raises(slice) ==
  slice.form = "forecastlength" /\ slice.digits = <<>>

\* simple_context_slicer where it returns (the index is sorted already)
simple_context_slicer(df, slice) ==
  CASE slice.form = "None" -> df
    [] slice.form = "forecastlength" ->
         DfTail(df, len_int(slice.digits) * slice.forecast_length)
    [] slice.form = "HalfMax" -> DfTail(df, NRows(df) \div 2)
    [] slice.form = "int" -> DfTail(df, slice.n)
    [] slice.form = "frac" -> DfTail(df, ShareOfRows(df, slice.frac))
    [] slice.form = "neg" -> DfTail(df, NRows(df) - slice.n)

Slice_transform(st, df) ==
  IF simple_context_slicer_raises(st.p.slice)
  THEN Raise(st, "IndexError: list index out of range")
  ELSE Ok(st, simple_context_slicer(df, st.p.slice))

Slice_fit_transform(st, df) == Slice_transform([st EXCEPT !.fitted = TRUE], df)

Slice_inverse_transform(st, df, trans_method) == Ok(st, df)

\* ---- ClipOutliers (method = "remove", fillna = None) ----
\* the squared sample deviation of a column (std ** 2, ddof = 1)
Var(c) ==
  LET m == MeanSkipNa(c)
      sq == [t \in 1..Len(c) |-> RMul(RSub(c[t], m), RSub(c[t], m))]
  IN  RDiv(SumSkipNa(sq), R(Len(NonNa(c)) - 1))

ClipOutliers_fit(st, df) ==
  [st EXCEPT !.fitted = TRUE,
             !.df_std2 = ReduceCols(Var, df),
             !.df_mean = ReduceCols(MeanSkipNa, df)]

\* df[np.abs(df - mean) <= std_threshold * std]: the other cells are NaN;
\* both sides are >= 0, so the squares are compared
ClipOutliers_transform(st, df) ==
  IF ~st.fitted THEN Raise(st, "AttributeError")
  ELSE Ok(st, [t \in 1..Len(df) |->
                 [j \in 1..Len(df[t]) |->
                    LET dev == RSub(df[t][j], PadRow(st.df_mean, Len(df[t]))[j])
                        lim == RMul(RMul(st.p.std_threshold, st.p.std_threshold),
                                    PadRow(st.df_std2, Len(df[t]))[j])
                    IN  IF RLe(RMul(dev, dev), lim) THEN df[t][j] ELSE NaN]])

ClipOutliers_fit_transform(st, df) ==
  ClipOutliers_transform(ClipOutliers_fit(st, df), df)

ClipOutliers_inverse_transform(st, df, trans_method) == Ok(st, df)

\* ---- AlignLastValue (method = "additive") ----
\* the center without the lag: the last rows of the frame
find_centerpoint_from_end(df, rows, lag) ==
  IF rows <= 1 THEN df[Len(df)] ELSE ReduceCols(MeanSkipNa, DfTail(df, rows))

\* df.iloc[a:b] with Python's negative positions, as rows a+1..b (1-based)
find_centerpoint(df, rows, lag) ==
  LET n == Len(df)
  IN  IF rows <= 1
      THEN (IF lag > 1 THEN df[n - lag + 1] ELSE df[n])
      ELSE IF lag > 1
      THEN ReduceCols(MeanSkipNa,
                      SubSeq(df, Max(1, n - (lag + rows - 1) + 1), n - (lag - 1)))
      ELSE ReduceCols(MeanSkipNa, DfTail(df, rows))

AlignLastValue_fit(st, df) ==
  LET filled == IF HasNaN(df) THEN MapCols(FfillCol, df) ELSE df
  IN  IF st.p.rows <= 1 /\ st.p.lag > Len(df) THEN Raise(st, "IndexError")
      ELSE Ok([st EXCEPT !.fitted = TRUE,
                         !.center = find_centerpoint(filled, st.p.rows, st.p.lag)],
              df)

AlignLastValue_fit_transform(st, df) == AlignLastValue_fit(st, df)

AlignLastValue_transform(st, df) == Ok(st, df)

AlignLastValue_inverse_transform(st, df, trans_method, bounds) ==
  IF trans_method = "original" \/ bounds THEN Ok(st, df)
  ELSE IF ~st.fitted THEN Raise(st, "AttributeError")
  ELSE IF df = <<>> THEN Raise(st, "IndexError")
  ELSE LET w == Max(NCols(df), Len(st.center))
           delta == [j \in 1..w |->
                       RMul(st.p.strength,
                            RSub(PadRow(st.center, w)[j], PadRow(df[1], w)[j]))]
       IN  IF st.p.first_value_only
           THEN Ok(st, Concat(<<AddRows(df[1], delta)>>, Tail(df)))
           ELSE Ok(st, AlignRow(RAdd, df, delta))

\* ------------------------------------------------------------------------
\* External capabilities (consumed, not part of transform.py): what they
\* return is drawn by the calling action and handed down as ext
\* ------------------------------------------------------------------------
\* ext.matrix:   which matrix the decomposition returns
\* ext.sk_raises: whether the sklearn estimator raises on the frame given
\* ext.holiday:  whether the first date of a frame is a detected holiday
ExternalOutcomes ==
  { [matrix |-> "identity", sk_raises |-> FALSE, holiday |-> FALSE],
    [matrix |-> "alt", sk_raises |-> FALSE, holiday |-> TRUE],
    [matrix |-> "alt", sk_raises |-> TRUE, holiday |-> TRUE] }

Identity(c) == [j \in 1..c |-> [k \in 1..c |-> IF j = k THEN R(1) ELSE R(0)]]

\* coint_johansen / btcd_decompose: a c x c matrix of full rank
DecompositionMatrix(ext, c) ==
  IF ext.matrix = "identity" THEN Identity(c)
  ELSE [j \in 1..c |-> [k \in 1..c |->
          IF j = k \/ (j = 1 /\ k = 2) THEN R(1) ELSE R(0)]]

\* sklearn PCA / FastICA components_: orthonormal rows, n_components of them
SklearnComponents(ext, k, c) ==
  [j \in 1..k |-> [i \in 1..c |->
     IF j # i THEN R(0) ELSE IF ext.matrix = "identity" THEN R(1) ELSE R(-1)]]

\* dates_to_holidays(df.index, style="impact"): the impact of the holidays
\* on each date and series; a holiday on the first date has impact 3
HolidayImpact(st, df) ==
  [t \in 1..Len(df) |-> [j \in 1..Len(df[t]) |->
     IF st.holiday /\ t = 1 THEN R(3) ELSE R(0)]]

\* np.matmul(m, df.values.T).T
MatMulT(m, df) ==
  [t \in 1..Len(df) |-> [j \in 1..Len(m) |->
     SumSkipNa([k \in 1..Len(df[t]) |-> RMul(m[j][k], df[t][k])])]]

\* the inverse of a 1 x 1 or 2 x 2 matrix of full rank
MatInverse(m) ==
  IF Len(m) = 1 THEN <<<<RDiv(R(1), m[1][1])>>>>
  ELSE LET det == RSub(RMul(m[1][1], m[2][2]), RMul(m[1][2], m[2][1]))
       IN  << <<RDiv(m[2][2], det), RDiv(RNeg(m[1][2]), det)>>,
              <<RDiv(RNeg(m[2][1]), det), RDiv(m[1][1], det)>> >>

\* ---- Cointegration and BTCD ----
Cointegration_fit_transform(st, df, ext) ==
  IF NCols(df) < 2
  THEN Raise(st, "ValueError: Coint only works on multivarate series")
  ELSE LET s2 == [st EXCEPT !.fitted = TRUE,
                            !.components_ = DecompositionMatrix(ext, NCols(df))]
       IN  Ok(s2, MatMulT(s2.components_, df))

Cointegration_transform(st, df) ==
  IF ~st.fitted THEN Raise(st, "AttributeError")
  ELSE IF Len(st.components_) # NCols(df)
  THEN Raise(st, "ValueError: matmul: mismatch in its core dimension")
  ELSE Ok(st, MatMulT(st.components_, df))

\* np.linalg.lstsq(components_, df.T, rcond=1), taken as the solution of
\* components_ X = df.T for a matrix of full rank
Cointegration_inverse_transform(st, df, trans_method) ==
  IF ~st.fitted THEN Raise(st, "AttributeError")
  ELSE IF Len(st.components_) # NCols(df)
  THEN Raise(st, "LinAlgError: Incompatible dimensions")
  ELSE Ok(st, MatMulT(MatInverse(st.components_), df))

BTCD_fit_transform(st, df, ext) ==
  IF NCols(df) < 2
  THEN Raise(st, "ValueError: BTCD only works on multivarate series")
  ELSE LET s2 == [st EXCEPT !.fitted = TRUE,
                            !.components_ = DecompositionMatrix(ext, NCols(df))]
       IN  Ok(s2, MatMulT(s2.components_, df))

BTCD_transform(st, df) ==
  IF ~st.fitted THEN Raise(st, "AttributeError")
  ELSE IF Len(st.components_) # NCols(df)
  THEN Raise(st, "ValueError: matmul: mismatch in its core dimension")
  ELSE Ok(st, MatMulT(st.components_, df))

\* np.linalg.solve(components_, df.T).T
BTCD_inverse_transform(st, df, trans_method) ==
  IF ~st.fitted THEN Raise(st, "AttributeError")
  ELSE IF Len(st.components_) # NCols(df)
  THEN Raise(st, "LinAlgError: Incompatible dimensions")
  ELSE Ok(st, MatMulT(MatInverse(st.components_), df))

\* ---- PCA and FastICA (wrappers of the sklearn estimators) ----
\* _fit stores the columns and a new estimator, then calls the estimator:
\* no check of the number of columns
PCA_fit_transform(st, df, ext) ==
  LET s1 == [st EXCEPT !.columns = NCols(df), !.transformer = "unfitted"]
      k == Min(NRows(df), NCols(df))
      s2 == [s1 EXCEPT !.fitted = TRUE, !.transformer = "fitted",
                       !.df_mean = ReduceCols(MeanSkipNa, df),
                       !.components_ = SklearnComponents(ext, k, NCols(df))]
  IN  IF ext.sk_raises THEN Raise(s1, "sklearn error")
      ELSE Ok(s2, MatMulT(s2.components_, AlignRow(RSub, df, s2.df_mean)))

PCA_transform(st, df) ==
  IF st.transformer # "fitted" THEN Raise(st, "AttributeError")
  ELSE IF NCols(df) # st.columns THEN Raise(st, "ValueError: n_features")
  ELSE Ok(st, MatMulT(st.components_, AlignRow(RSub, df, st.df_mean)))

\* X_original = X . components_ + mean_
PCA_inverse_transform(st, df, trans_method) ==
  IF st.transformer # "fitted" THEN Raise(st, "AttributeError")
  ELSE IF NCols(df) # Len(st.components_) THEN Raise(st, "ValueError: shapes")
  ELSE Ok(st, AlignRow(RAdd,
                [t \in 1..Len(df) |-> [i \in 1..st.columns |->
                   SumSkipNa([j \in 1..Len(st.components_) |->
                                RMul(df[t][j], st.components_[j][i])])]],
                st.df_mean))

\* ---- MinMaxScaler (sklearn.preprocessing) ----
\* the scale of a column: 1 / (max - min), and 1 where max = min
MinMaxScale(c) ==
  IF IsZero(RSub(MaxSkipNa(c), MinSkipNa(c))) THEN R(1)
  ELSE RDiv(R(1), RSub(MaxSkipNa(c), MinSkipNa(c)))

\* (x - data_min_) * scale_, returned as an array without labels
MinMaxScaler_transform(st, df) ==
  IF ~st.fitted THEN Raise(st, "NotFittedError")
  ELSE IF NCols(df) # Len(st.scale_) THEN Raise(st, "ValueError: n_features")
  ELSE Ok(st, ZipRow(RMul, ZipRow(RSub, df, st.data_min_), st.scale_))

MinMaxScaler_fit_transform(st, df) ==
  MinMaxScaler_transform([st EXCEPT !.fitted = TRUE,
                                    !.data_min_ = ReduceCols(MinSkipNa, df),
                                    !.scale_ = ReduceCols(MinMaxScale, df)],
                         df)

\* x / scale_ + data_min_
MinMaxScaler_inverse_transform(st, df) ==
  IF ~st.fitted THEN Raise(st, "NotFittedError")
  ELSE IF NCols(df) # Len(st.scale_) THEN Raise(st, "ValueError: operands")
  ELSE Ok(st, ZipRow(RAdd, ZipRow(RDiv, df, st.scale_), st.data_min_))

\* ---- Discretize (discretization None, 'center', 'lower', 'upper') ----
\* np.quantile(c, k / nb) of a NaN-free column, linear between the two
\* nearest of its sorted values
QuantileCol(c, k, nb) ==
  IF (k * (Len(c) - 1)) % nb = 0
  THEN Kth(c, (k * (Len(c) - 1)) \div nb + 1)
  ELSE RAdd(Kth(c, (k * (Len(c) - 1)) \div nb + 1),
            RMul(Norm((k * (Len(c) - 1)) % nb, nb),
                 RSub(Kth(c, (k * (Len(c) - 1)) \div nb + 2),
                      Kth(c, (k * (Len(c) - 1)) \div nb + 1))))

\* the n_bins values of a column that its cells are moved to, from the
\* n_bins + 1 quantiles e
DiscretizeBins(discretization, e) ==
  CASE discretization = "center" ->
         [k \in 1..(Len(e) - 1) |-> RDiv(RAdd(e[k], e[k + 1]), R(2))]
    [] discretization = "lower" -> SubSeq(e, 1, Len(e) - 1)
    [] discretization = "upper" -> SubSeq(e, 2, Len(e))

\* bins[(np.abs(x - bins)).argmin()]: the first of the nearest values
NearestBin(x, b) ==
  b[CHOOSE i \in 1..Len(b) :
      /\ \A j \in 1..Len(b) : RLe(RAbs(RSub(x, b[i])), RAbs(RSub(x, b[j])))
      /\ \A j \in 1..(i - 1) : RLt(RAbs(RSub(x, b[i])), RAbs(RSub(x, b[j])))]

Binned(df, bins) ==
  [t \in 1..Len(df) |-> [j \in 1..Len(df[t]) |-> NearestBin(df[t][j], bins[j])]]

Discretize_bins(st, df) ==
  [j \in 1..NCols(df) |->
     DiscretizeBins(st.p.discretization,
                    [k \in 1..(st.p.n_bins + 1) |->
                       QuantileCol(Col(df, j), k - 1, st.p.n_bins)])]

\* _fit: with no discretization it sets nothing and returns the frame
Discretize__fit(st, df) ==
  IF st.p.discretization = "None" THEN Ok(st, df)
  ELSE Ok([st EXCEPT !.fitted = TRUE, !.bins = Discretize_bins(st, df)],
          Binned(df, Discretize_bins(st, df)))

Discretize_fit_transform(st, df) == Discretize__fit(st, df)

\* transform assigns df2 only with a discretization
Discretize_transform(st, df) ==
  IF st.p.discretization = "None"
    THEN Raise(st, "UnboundLocalError: local variable 'df2' referenced before assignment")
  ELSE IF ~st.fitted THEN Raise(st, "AttributeError")
  ELSE Ok(st, Binned(df, st.bins))

Discretize_inverse_transform(st, df, trans_method) == Ok(st, df)

\* ---- HolidayTransformer (remove_excess_anomalies = False, fillna = None) ----
\* fit: the anomaly detection and the calendars are external; df_cols is set
HolidayTransformer_fit(st, df, ext) ==
  [st EXCEPT !.fitted = TRUE, !.holiday = ext.holiday, !.columns = NCols(df)]

\* holidays.where(holidays == 0, holidays - medians)
HolidayOffsets(st, df, medians) ==
  LET h == HolidayImpact(st, df)
  IN  [t \in 1..Len(df) |-> [j \in 1..Len(df[t]) |->
         IF IsZero(h[t][j]) THEN h[t][j]
         ELSE RSub(h[t][j], PadRow(medians, Len(df[t]))[j])]]

\* transform with impact "median_value" stores the medians of the frame it
\* is given; impact None returns the frame
HolidayTransformer_transform(st, df) ==
  IF st.p.impact = "median_value"
  THEN IF ~st.fitted THEN Raise(st, "AttributeError")
       ELSE LET s2 == [st EXCEPT !.medians = ReduceCols(MedianSkipNa, df)]
            IN  Ok(s2, Zip(RSub, df, HolidayOffsets(s2, df, s2.medians)))
  ELSE IF st.p.impact = "None" THEN Ok(st, df)
  ELSE Raise(st, "ValueError: impact arg not recognized")

HolidayTransformer_fit_transform(st, df, ext) ==
  HolidayTransformer_transform(HolidayTransformer_fit(st, df, ext), df)

HolidayTransformer_inverse_transform(st, df) ==
  IF st.p.impact = "median_value"
  THEN IF ~st.fitted \/ st.medians = <<>> THEN Raise(st, "AttributeError")
       ELSE Ok(st, Zip(RAdd, df, HolidayOffsets(st, df, st.medians)))
  ELSE Ok(st, df)

\* ------------------------------------------------------------------------
\* Method dispatch on the class of the object
\* ------------------------------------------------------------------------
\* the mode a callee works with: its default is "forecast"
Effective(trans_method) ==
  IF trans_method = "unset" THEN "forecast" ELSE trans_method

StepFitTransform(st, df, ext) ==
  CASE st.cls = "EmptyTransformer" -> EmptyTransformer_fit_transform(st, df)
    [] st.cls = "DifferencedTransformer" -> DifferencedTransformer_fit_transform(st, df)
    [] st.cls = "CumSumTransformer" -> CumSumTransformer_fit_transform(st, df)
    [] st.cls = "PctChangeTransformer" -> PctChangeTransformer_fit_transform(st, df)
    [] st.cls = "MeanDifference" -> MeanDifference_fit_transform(st, df)
    [] st.cls = "SeasonalDifference" -> SeasonalDifference_fit_transform(st, df)
    [] st.cls = "RollingMeanTransformer" -> RollingMeanTransformer_fit_transform(st, df)
    [] st.cls = "CenterLastValue" -> CenterLastValue_fit_transform(st, df)
    [] st.cls = "PositiveShift" -> PositiveShift_fit_transform(st, df)
    [] st.cls = "Round" -> Round_fit_transform(st, df)
    [] st.cls = "Slice" -> Slice_fit_transform(st, df)
    [] st.cls = "ClipOutliers" -> ClipOutliers_fit_transform(st, df)
    [] st.cls = "AlignLastValue" -> AlignLastValue_fit_transform(st, df)
    [] st.cls = "Cointegration" -> Cointegration_fit_transform(st, df, ext)
    [] st.cls = "BTCD" -> BTCD_fit_transform(st, df, ext)
    [] st.cls \in {"PCA", "FastICA"} -> PCA_fit_transform(st, df, ext)
    [] st.cls = "HolidayTransformer" -> HolidayTransformer_fit_transform(st, df, ext)
    [] st.cls = "MinMaxScaler" -> MinMaxScaler_fit_transform(st, df)
    [] st.cls = "Discretize" -> Discretize_fit_transform(st, df)

StepTransform(st, df) ==
  CASE st.cls = "EmptyTransformer" -> EmptyTransformer_transform(st, df)
    [] st.cls = "DifferencedTransformer" -> DifferencedTransformer_transform(st, df)
    [] st.cls = "CumSumTransformer" -> CumSumTransformer_transform(st, df)
    [] st.cls = "PctChangeTransformer" -> PctChangeTransformer_transform(st, df)
    [] st.cls = "MeanDifference" -> MeanDifference_transform(st, df)
    [] st.cls = "SeasonalDifference" -> SeasonalDifference_transform(st, df)
    [] st.cls = "RollingMeanTransformer" -> RollingMeanTransformer_transform(st, df)
    [] st.cls = "CenterLastValue" -> CenterLastValue_transform(st, df)
    [] st.cls = "PositiveShift" -> PositiveShift_transform(st, df)
    [] st.cls = "Round" -> Round_transform(st, df)
    [] st.cls = "Slice" -> Slice_transform(st, df)
    [] st.cls = "ClipOutliers" -> ClipOutliers_transform(st, df)
    [] st.cls = "AlignLastValue" -> AlignLastValue_transform(st, df)
    [] st.cls = "Cointegration" -> Cointegration_transform(st, df)
    [] st.cls = "BTCD" -> BTCD_transform(st, df)
    [] st.cls \in {"PCA", "FastICA"} -> PCA_transform(st, df)
    [] st.cls = "HolidayTransformer" -> HolidayTransformer_transform(st, df)
    [] st.cls = "MinMaxScaler" -> MinMaxScaler_transform(st, df)
    [] st.cls = "Discretize" -> Discretize_transform(st, df)

\* trans_method and bounds are the keyword arguments of the call, "unset"
\* when the caller gives none
StepInverse(st, df, trans_method, bounds) ==
  LET tm == Effective(trans_method)
  IN
  CASE st.cls = "EmptyTransformer" -> EmptyTransformer_inverse_transform(st, df, tm)
    [] st.cls = "DifferencedTransformer" -> DifferencedTransformer_inverse_transform(st, df, tm)
    [] st.cls = "CumSumTransformer" -> CumSumTransformer_inverse_transform(st, df, tm)
    [] st.cls = "PctChangeTransformer" -> PctChangeTransformer_inverse_transform(st, df, tm)
    [] st.cls = "MeanDifference" -> MeanDifference_inverse_transform(st, df, tm)
    [] st.cls = "SeasonalDifference" -> SeasonalDifference_inverse_transform(st, df, tm)
    [] st.cls = "RollingMeanTransformer" -> RollingMeanTransformer_inverse_transform(st, df, tm)
    [] st.cls = "CenterLastValue" -> CenterLastValue_inverse_transform(st, df, tm)
    [] st.cls = "PositiveShift" -> PositiveShift_inverse_transform(st, df)
    [] st.cls = "Round" -> Round_inverse_transform(st, df, tm)
    [] st.cls = "Slice" -> Slice_inverse_transform(st, df, tm)
    [] st.cls = "ClipOutliers" -> ClipOutliers_inverse_transform(st, df, tm)
    [] st.cls = "AlignLastValue" ->
         AlignLastValue_inverse_transform(st, df, tm, bounds = "True")
    [] st.cls = "Cointegration" -> Cointegration_inverse_transform(st, df, tm)
    [] st.cls = "BTCD" -> BTCD_inverse_transform(st, df, tm)
    [] st.cls \in {"PCA", "FastICA"} -> PCA_inverse_transform(st, df, tm)
    [] st.cls = "HolidayTransformer" -> HolidayTransformer_inverse_transform(st, df)
    [] st.cls = "MinMaxScaler" -> MinMaxScaler_inverse_transform(st, df)
    [] st.cls = "Discretize" -> Discretize_inverse_transform(st, df, tm)

\* fit of the classes that learn from the frame alone: the object after
\* it and what the method returns, the object ("self") or nothing ("None")
Fitted(st, ret) == [ok |-> TRUE, err |-> "", st |-> st, df |-> <<>>, ret |-> ret]

FitRaised(res) == [ok |-> FALSE, err |-> res.err, st |-> res.st, df |-> <<>>, ret |-> ""]

StepFit(st, df, ext) ==
  CASE st.cls = "EmptyTransformer" -> Fitted([st EXCEPT !.fitted = TRUE], "self")
    [] st.cls = "DifferencedTransformer" -> Fitted(DifferencedTransformer_fit(st, df), "self")
    [] st.cls = "CumSumTransformer" -> Fitted(CumSumTransformer_fit(st, df), "self")
    [] st.cls = "PctChangeTransformer" -> Fitted(PctChangeTransformer_fit(st, df), "self")
    [] st.cls = "MeanDifference" -> Fitted(MeanDifference_fit(st, df), "self")
    [] st.cls = "SeasonalDifference" -> Fitted(SeasonalDifference_fit(st, df), "self")
    [] st.cls = "RollingMeanTransformer" -> Fitted(RollingMeanTransformer_fit(st, df), "self")
    [] st.cls = "CenterLastValue" -> Fitted(CenterLastValue_fit(st, df), "self")
    [] st.cls = "PositiveShift" -> Fitted(PositiveShift_fit(st, df), "self")
    [] st.cls = "Round" -> Fitted([st EXCEPT !.fitted = TRUE], "self")
    [] st.cls = "Slice" -> Fitted([st EXCEPT !.fitted = TRUE], "self")
    [] st.cls = "ClipOutliers" -> Fitted(ClipOutliers_fit(st, df), "self")
    [] st.cls = "AlignLastValue" ->
         IF AlignLastValue_fit(st, df).ok
         THEN Fitted(AlignLastValue_fit(st, df).st, "self")
         ELSE FitRaised(AlignLastValue_fit(st, df))
    [] st.cls = "Discretize" -> Fitted(Discretize__fit(st, df).st, "self")
    [] st.cls = "HolidayTransformer" -> Fitted(HolidayTransformer_fit(st, df, ext), "None")

\* ------------------------------------------------------------------------
\* The module-level catalogs
\* ------------------------------------------------------------------------
\* trans_dict: one object per name, built when the module is imported
trans_dict_init ==
  [name \in {"None", "RollingMean10", "DifferencedTransformer",
             "PctChangeTransformer", "PositiveShift", "CumSumTransformer",
             "SeasonalDifference7", "SeasonalDifference12", "MeanDifference"} |->
     CASE name = "None" -> NewStep("EmptyTransformer", DefaultParams)
       [] name = "RollingMean10" ->
            NewStep("RollingMeanTransformer", [DefaultParams EXCEPT !.window = 10])
       [] name = "PositiveShift" ->
            NewStep("PositiveShift", [DefaultParams EXCEPT !.squared = FALSE])
       [] name = "SeasonalDifference7" ->
            NewStep("SeasonalDifference",
                    [DefaultParams EXCEPT !.lag_1 = 7, !.method = "LastValue"])
       [] name = "SeasonalDifference12" ->
            NewStep("SeasonalDifference",
                    [DefaultParams EXCEPT !.lag_1 = 12, !.method = "Mean"])
       [] OTHER -> NewStep(name, DefaultParams)]

\* n_jobs_trans (the names trans_dict does not already answer)
n_jobs_trans == {"HolidayTransformer"}

\* have_params: classes built anew from the step's parameters
have_params ==
  {"RollingMeanTransformer", "SeasonalDifference", "CenterLastValue",
   "ClipOutliers", "Round", "Slice", "FastICA", "PCA", "BTCD",
   "Cointegration", "AlignLastValue", "HolidayTransformer"}

\* external_transformers: the sklearn classes, whose methods return an
\* array and no DataFrame (of them MinMaxScaler is a step here)
external_transformers ==
  {"MinMaxScaler", "PowerTransformer", "QuantileTransformer", "MaxAbsScaler",
   "StandardScaler", "RobustScaler"}

\* GeneralTransformer.__init__: the names whose inverse takes bounds, and
\* the names whose inverse takes trans_method
bounded_oddities == {"AlignLastValue"}

oddities_list ==
  {"DifferencedTransformer", "RollingMean100thN", "RollingMean10thN",
   "RollingMean10", "RollingMean", "RollingMeanTransformer",
   "PctChangeTransformer", "CumSumTransformer", "SeasonalDifference",
   "SeasonalDifferenceMean", "SeasonalDifference7", "SeasonalDifference12",
   "SeasonalDifference28", "MeanDifference", "AlignLastValue"}

\* a slot of GeneralTransformer.transformers: a reference to the object of
\* trans_dict with that name, or an object of its own
Shared(name) ==
  [shared |-> TRUE, name |-> name, st |-> NewStep("EmptyTransformer", DefaultParams)]

Own(st) == [shared |-> FALSE, name |-> st.cls, st |-> st]

retrieve_transformer(transformation, param, df) ==
  IF transformation \in DOMAIN trans_dict_init THEN Shared(transformation)
  ELSE IF transformation \in n_jobs_trans THEN Own(NewStep(transformation, param))
  ELSE IF transformation \in have_params THEN Own(NewStep(transformation, param))
  ELSE IF transformation = "MinMaxScaler"
  THEN Own(NewStep("MinMaxScaler", DefaultParams))
  ELSE IF transformation \in {"RollingMean", "FixedRollingMean"}
  THEN Own(NewStep("RollingMeanTransformer",
                   [param EXCEPT !.window = Max(2, param.window),
                                 !.fixed = (transformation = "FixedRollingMean")]))
  ELSE IF transformation = "SeasonalDifferenceMean"
  THEN Own(NewStep("SeasonalDifference", [param EXCEPT !.method = "Mean"]))
  ELSE IF transformation = "RollingMean100thN"
  THEN Own(NewStep("RollingMeanTransformer",
                   [DefaultParams EXCEPT !.window = Max(2, NRows(df) \div 100)]))
  ELSE IF transformation = "RollingMean10thN"
  THEN Own(NewStep("RollingMeanTransformer",
                   [DefaultParams EXCEPT !.window = Max(2, NRows(df) \div 10)]))
  ELSE Own(NewStep("EmptyTransformer", DefaultParams))

\* the object a slot stands for
Deref(slot, td) == IF slot.shared THEN td[slot.name] ELSE slot.st

\* ------------------------------------------------------------------------
\* GeneralTransformer
\* ------------------------------------------------------------------------
\* sorted(keys) and sorted(keys, reverse=True)
RECURSIVE Sorted(_)
Sorted(S) ==
  IF S = {} THEN <<>>
  ELSE LET m == CHOOSE x \in S : \A y \in S : x <= y
       IN  <<m>> \o Sorted(S \ {m})

\* the keys in ascending order where the descending order is due
KeysAscendingAgain(S) == Sorted(S)

RECURSIVE SortedReverse(_)
SortedReverse(S) ==
  IF S = {} THEN <<>>
  ELSE LET m == CHOOSE x \in S : \A y \in S : x >= y
       IN  <<m>> \o SortedReverse(S \ {m})

\* self.df_index and self.df_colnames: the labels of a frame, kept here by
\* their number and by the step whose output they were read from (-1: the
\* frame the method was called with)
Labels(n, at) == [n |-> n, at |-> at]

\* one step of a call, as the orchestrator made it; the loop adds whether
\* the step returned a DataFrame, the labels tracked when it returned
\* (wrap_) and the labels tracked after the pass
Applied(key, name, op, trans_method, bounds, inp, res) ==
  [key |-> key, name |-> name, op |-> op, trans_method |-> trans_method,
   bounds |-> bounds, inp |-> inp, ok |-> res.ok, out |-> res.df,
   table |-> TRUE, wrap_index |-> Labels(0, -1),
   wrap_colnames |-> Labels(0, -1), df_index |-> Labels(0, -1),
   df_colnames |-> Labels(0, -1)]

\* the slot and the catalog after a method call left the object as st
Store(slot, td, st) ==
  IF slot.shared THEN [slot |-> slot, td |-> [td EXCEPT ![slot.name] = st]]
  ELSE [slot |-> [slot EXCEPT !.st = st], td |-> td]

\* where a loop over the steps stands: the frame so far, the slots, the
\* catalog, the steps applied, and the exception that ended it, if any
Progress(df, tfs, td, trace) ==
  [ok |-> TRUE, err |-> "", at |-> -1, name |-> "", df |-> df, tfs |-> tfs,
   td |-> td, trace |-> trace, df_index |-> Labels(NRows(df), -1),
   df_colnames |-> Labels(NCols(df), -1), own |-> TRUE, caller |-> df]

\* the cells of the frame object a step was called with, after the step:
\* MeanDifference.inverse_transform in its forecast branch assigns every
\* row of its argument (df.iloc[indx] = ...) before it checks for NaN, and
\* no other method of the module assigns to the cells of its argument
WrittenInPlace(applied, res) ==
  IF /\ res.st.cls = "MeanDifference"
     /\ applied.op = "inverse_transform"
     /\ applied.trans_method # "original"
     /\ res.st.fitted
  THEN MeanDifferenceForecast(applied.inp, res.st.mean_last)
  ELSE applied.inp

\* the inverse_transform of a step returned the object it was called with
\* (a plain `return df` with df never rebound); fit_transform and
\* transform are not followed, nothing in them writes to a frame
ReturnsInput(applied, res) ==
  /\ res.ok
  /\ applied.op = "inverse_transform"
  /\ \/ res.st.cls \in {"EmptyTransformer", "ClipOutliers", "Slice"}
     \/ res.st.cls = "Round" /\ ~res.st.p.on_inverse
     \/ res.st.cls = "MeanDifference" /\ applied.trans_method # "original"
     \/ res.st.cls = "AlignLastValue"
          /\ (applied.trans_method = "original" \/ applied.bounds = "True")
     \/ res.st.cls = "HolidayTransformer"
          /\ res.st.p.impact \notin {"datepart_regression", "regression",
                                     "median_value", "anomaly_score"}

Failed(pr, key, name, err, trace) ==
  [pr EXCEPT !.ok = FALSE, !.err = err, !.at = key, !.name = name,
             !.df = <<>>, !.trace = trace]

\* a function with one more (or one replaced) entry
Put(f, k, v) == [x \in DOMAIN f \cup {k} |-> IF x = k THEN v ELSE f[x]]

\* pd.DataFrame(df, index=self.df_index, columns=self.df_colnames) of a
\* step output that is no DataFrame: the array must have the shape of the
\* labels
DataFrame(pr, res) ==
  IF res.ok /\ res.st.cls \in external_transformers
     /\ (NRows(res.df) # pr.df_index.n \/ NCols(res.df) # pr.df_colnames.n)
  THEN Raise(res.st, "ValueError: Shape of passed values")
  ELSE res

\* self.df_index kept through every step
IndexNeverRederived(pr, i, name, op, res) == pr.df_index

\* self.df_index after the pass of the step at key i: _fit and transform
\* read it again from the output of Slice, FastICA and PCA
df_index(pr, i, name, op, res) ==
  IF op # "inverse_transform" /\ name \in {"Slice", "FastICA", "PCA"}
  THEN Labels(NRows(res.df), i)
  ELSE pr.df_index

\* self.df_colnames after the pass: as df_index in _fit and transform;
\* inverse_transform reads it again from a DataFrame of FastICA and PCA
df_colnames(pr, i, name, op, res) ==
  IF name \in {"FastICA", "PCA"}
     /\ (op # "inverse_transform" \/ res.st.cls \notin external_transformers)
  THEN Labels(NCols(res.df), i)
  ELSE IF op # "inverse_transform" /\ name = "Slice"
  THEN Labels(NCols(res.df), i)
  ELSE pr.df_colnames

\* the loop's progress after the step at key i ended as res, the output
\* being a DataFrame by now: the object is kept where it lives, the call
\* is recorded, and an exception ends the loop
Tracked(pr, i, name, kept, applied, res) ==
  IF res.ok
  THEN [pr EXCEPT !.tfs = Put(pr.tfs, i, kept.slot), !.td = kept.td,
                  !.trace = Append(pr.trace,
                     [applied EXCEPT
                        !.table = res.st.cls \notin external_transformers,
                        !.wrap_index = pr.df_index,
                        !.wrap_colnames = pr.df_colnames,
                        !.df_index = df_index(pr, i, name, applied.op, res),
                        !.df_colnames = df_colnames(pr, i, name, applied.op, res)]),
                  !.df = res.df,
                  !.df_index = df_index(pr, i, name, applied.op, res),
                  !.df_colnames = df_colnames(pr, i, name, applied.op, res),
                  !.own = pr.own /\ ReturnsInput(applied, res),
                  !.caller = IF pr.own THEN WrittenInPlace(applied, res)
                             ELSE pr.caller]
  ELSE [pr EXCEPT !.tfs = Put(pr.tfs, i, kept.slot), !.td = kept.td,
                  !.trace = Append(pr.trace,
                     [applied EXCEPT
                        !.ok = FALSE, !.out = <<>>,
                        !.table = res.st.cls \notin external_transformers,
                        !.wrap_index = pr.df_index,
                        !.wrap_colnames = pr.df_colnames,
                        !.df_index = pr.df_index,
                        !.df_colnames = pr.df_colnames]),
                  !.ok = FALSE,
                  !.err = res.err, !.at = i, !.name = name, !.df = <<>>,
                  !.caller = IF pr.own THEN WrittenInPlace(applied, res)
                             ELSE pr.caller]

\* the loop's progress after the step at key i ended as res: an output
\* that is no DataFrame is made one first
After(pr, i, name, kept, applied, res) ==
  Tracked(pr, i, name, kept, applied, DataFrame(pr, res))

\* one pass of the loop of _fit once fit_transform of the object in slot
\* ended as res
fit_step(i, name, pr, X, slot, res) ==
  After(pr, i, name, Store(slot, pr.td, [res.st EXCEPT !.src = X]),
        Applied(i, name, "fit_transform", "unset", "unset", pr.df, res), res)

\* one pass of the loop of _fit with the transformer retrieved into slot
fit_retrieved(i, name, pr, X, ext, slot) ==
  fit_step(i, name, pr, X, slot,
           StepFitTransform(Deref(slot, pr.td), pr.df, ext))

\* the loop of _fit over sorted(self.transformations.keys()), from position
\* n on: retrieve the transformer into its slot, fit_transform it
RECURSIVE fit_loop(_, _, _, _, _, _, _)
fit_loop(keys, n, names, params, pr, X, ext) ==
  IF n > Len(keys) \/ ~pr.ok THEN pr
  ELSE fit_loop(keys, n + 1, names, params,
                fit_retrieved(keys[n], names[keys[n]], pr, X, ext,
                              retrieve_transformer(names[keys[n]],
                                                   params[keys[n]], pr.df)),
                X, ext)

\* one pass of the loop of transform once the transform of the object in
\* slot ended as res
transform_step(i, name, pr, slot, res) ==
  After(pr, i, name, Store(slot, pr.td, res.st),
        Applied(i, name, "transform", "unset", "unset", pr.df, res), res)

\* the loop of transform: the fitted slot's transform, no refit
RECURSIVE transform_loop(_, _, _, _)
transform_loop(keys, n, names, pr) ==
  IF n > Len(keys) \/ ~pr.ok THEN pr
  ELSE transform_loop(keys, n + 1, names,
         IF keys[n] \notin DOMAIN pr.tfs
         THEN Failed(pr, keys[n], names[keys[n]], "KeyError", pr.trace)
         ELSE transform_step(keys[n], names[keys[n]], pr, pr.tfs[keys[n]],
                StepTransform(Deref(pr.tfs[keys[n]], pr.td), pr.df)))

\* the arguments with bounds left out of every call
ArgsWithoutBounds(c_trans_n, trans_method, bounds) ==
  IF c_trans_n \in oddities_list
  THEN [trans_method |-> trans_method, bounds |-> "unset"]
  ELSE [trans_method |-> "unset", bounds |-> "unset"]

\* the arguments inverse_transform calls the step named c_trans_n with:
\* trans_method goes to the names of oddities_list, bounds to those of
\* bounded_oddities among them, and the other names get neither
InverseArgs(c_trans_n, trans_method, bounds) ==
  IF c_trans_n \in oddities_list
  THEN IF c_trans_n \in bounded_oddities
       THEN [trans_method |-> trans_method, bounds |-> bounds]
       ELSE [trans_method |-> trans_method, bounds |-> "unset"]
  ELSE [trans_method |-> "unset", bounds |-> "unset"]

\* one pass of the loop of inverse_transform once the inverse_transform of
\* the object in slot, called with args, ended as res
inverse_step(i, c_trans_n, pr, slot, args, res) ==
  After(pr, i, c_trans_n, Store(slot, pr.td, res.st),
        Applied(i, c_trans_n, "inverse_transform", args.trans_method,
                args.bounds, pr.df, res), res)

\* one pass of the loop of inverse_transform with the arguments settled
inverse_call(i, c_trans_n, pr, slot, args) ==
  inverse_step(i, c_trans_n, pr, slot, args,
               StepInverse(Deref(slot, pr.td), pr.df, args.trans_method,
                           args.bounds))

\* the loop of inverse_transform over the keys in reverse
RECURSIVE inverse_loop(_, _, _, _, _, _)
inverse_loop(keys, n, names, pr, trans_method, bounds) ==
  IF n > Len(keys) \/ ~pr.ok THEN pr
  ELSE inverse_loop(keys, n + 1, names,
         IF keys[n] \notin DOMAIN pr.tfs
         THEN Failed(pr, keys[n], names[keys[n]], "KeyError", pr.trace)
         ELSE inverse_call(keys[n], names[keys[n]], pr, pr.tfs[keys[n]],
                InverseArgs(names[keys[n]], trans_method, bounds)),
         trans_method, bounds)

\* df.fillna(0)
FillZero(df) == MapCells(LAMBDA x : IF IsNaN(x) THEN R(0) ELSE x, df)

\* ------------------------------------------------------------------------
\* RandomTransform and the catalogs it reads
\* ------------------------------------------------------------------------
\* na_probs: the weight of each NaN-fill method, in ten-thousandths
na_probs_init ==
  ("ffill" :> 4000) @@ ("fake_date" :> 1000) @@ ("rolling_mean" :> 1000)
  @@ ("rolling_mean_24" :> 1000) @@ ("IterativeImputer" :> 500)
  @@ ("mean" :> 600) @@ ("zero" :> 500) @@ ("ffill_mean_biased" :> 1000)
  @@ ("median" :> 300) @@ ("None" :> 10) @@ ("interpolate" :> 4000)
  @@ ("KNNImputer" :> 500) @@ ("IterativeImputerExtraTrees" :> 1)

\* df_interpolate of autots.tools.impute: interpolation methods and their
\* weights, 'spline' one of them
df_interpolate_init ==
  ("linear" :> 4000) @@ ("time" :> 1000) @@ ("spline" :> 300)

\* transformer_dict: the weight of each transformer name, in thousandths
transformer_dict ==
  ("None" :> 0) @@ ("MinMaxScaler" :> 50) @@ ("PowerTransformer" :> 20) @@
  ("QuantileTransformer" :> 50) @@ ("MaxAbsScaler" :> 50) @@
  ("StandardScaler" :> 40) @@ ("RobustScaler" :> 50) @@ ("PCA" :> 10) @@
  ("FastICA" :> 10) @@ ("Detrend" :> 100) @@
  ("RollingMeanTransformer" :> 20) @@ ("RollingMean100thN" :> 10) @@
  ("DifferencedTransformer" :> 70) @@ ("SinTrend" :> 10) @@
  ("PctChangeTransformer" :> 10) @@ ("CumSumTransformer" :> 20) @@
  ("PositiveShift" :> 20) @@ ("Log" :> 10) @@
  ("IntermittentOccurrence" :> 10) @@ ("SeasonalDifference" :> 100) @@
  ("cffilter" :> 10) @@ ("bkfilter" :> 50) @@
  ("convolution_filter" :> 1) @@ ("HPFilter" :> 10) @@
  ("DatepartRegression" :> 10) @@ ("ClipOutliers" :> 50) @@
  ("Discretize" :> 10) @@ ("CenterLastValue" :> 10) @@ ("Round" :> 20) @@
  ("Slice" :> 20) @@ ("ScipyFilter" :> 20) @@ ("STLFilter" :> 10) @@
  ("EWMAFilter" :> 20) @@ ("MeanDifference" :> 2) @@ ("BTCD" :> 10) @@
  ("Cointegration" :> 10) @@ ("AlignLastValue" :> 200) @@
  ("AnomalyRemoval" :> 30) @@ ("HolidayTransformer" :> 10) @@
  ("LocalLinearTrend" :> 10) @@ ("KalmanSmoothing" :> 10)

\* dict.pop(k, None) and del dict[k]: the dict without the key k
Without(f, k) == [x \in DOMAIN f \ {k} |-> f[x]]

fast_transformer_dict ==
  Without(Without(Without(transformer_dict, "FastICA"), "Cointegration"),
          "BTCD")

superfast_transformer_dict ==
  ("None" :> 0) @@ ("MinMaxScaler" :> 50) @@ ("MaxAbsScaler" :> 50) @@
  ("StandardScaler" :> 40) @@ ("RobustScaler" :> 50) @@
  ("Detrend" :> 100) @@ ("RollingMeanTransformer" :> 20) @@
  ("DifferencedTransformer" :> 100) @@ ("PositiveShift" :> 20) @@
  ("Log" :> 10) @@ ("SeasonalDifference" :> 100) @@ ("bkfilter" :> 50) @@
  ("ClipOutliers" :> 50) @@ ("Discretize" :> 10) @@ ("Slice" :> 20) @@
  ("EWMAFilter" :> 10) @@ ("AlignLastValue" :> 50)

\* the transformer_list argument: the name of a catalog, or a list of names
TransformerList(alias, names) == [alias |-> alias, names |-> names]

\* transformer_list_to_dict: the names and their weights (the names of a
\* list weigh the same); a string that is no alias raises ValueError and
\* is not among the arguments given here
transformer_list_to_dict(transformer_list) ==
  IF transformer_list.alias = "all"
     \/ (transformer_list.alias = "" /\ transformer_list.names = <<>>)
  THEN transformer_dict
  ELSE IF transformer_list.alias \in {"fast", "default", "Fast", "auto"}
  THEN fast_transformer_dict
  ELSE IF transformer_list.alias = "superfast"
  THEN superfast_transformer_dict
  ELSE [x \in {transformer_list.names[k] :
                 k \in 1..Len(transformer_list.names)} |-> 1]

\* what random.choices(names, weights) can return
Weighted(prob) == {x \in DOMAIN prob : prob[x] > 0}

\* the arguments of RandomTransform; na_prob_dict is left at its default,
\* the module's na_probs
RandomTransformArgs(transformer_list, transformer_max_depth, fast_params, superfast_params, traditional_order, transformer_min_depth, allow_none, no_nan_fill) ==
  [transformer_list |-> transformer_list,
   transformer_max_depth |-> transformer_max_depth,
   fast_params |-> fast_params, superfast_params |-> superfast_params,
   traditional_order |-> traditional_order,
   transformer_min_depth |-> transformer_min_depth,
   allow_none |-> allow_none, no_nan_fill |-> no_nan_fill]

\* fast_params and superfast_params once None is settled by the names of
\* the list
FastParams(args) ==
  IF args.fast_params = "None"
  THEN "BTCD" \notin DOMAIN transformer_list_to_dict(args.transformer_list)
  ELSE args.fast_params = "True"

SuperfastParams(args) ==
  IF args.superfast_params = "None"
  THEN {"DatepartRegression", "ScipyFilter", "QuantileTransformer"}
         \cap DOMAIN transformer_list_to_dict(args.transformer_list) = {}
  ELSE args.superfast_params = "True"

ParamsMethod(args) ==
  IF FastParams(args) \/ SuperfastParams(args) THEN "fast" ELSE "None"

\* na_prob_dict and df_interpolate after the pops of the call
NaProbsAfter(na, args) ==
  IF FastParams(args)
  THEN IF SuperfastParams(args)
       THEN Without(Without(Without(na, "IterativeImputer"),
                            "IterativeImputerExtraTrees"), "KNNImputer")
       ELSE Without(Without(na, "IterativeImputer"),
                    "IterativeImputerExtraTrees")
  ELSE IF SuperfastParams(args) THEN Without(na, "KNNImputer") ELSE na

InterpolateAfter(interp, args) ==
  IF FastParams(args) THEN Without(interp, "spline") ELSE interp

MaxDepth(args) ==
  IF args.transformer_max_depth <= 0 THEN 0 ELSE args.transformer_max_depth

MinDepth(args) ==
  IF args.transformer_max_depth <= 0 THEN 0 ELSE args.transformer_min_depth

\* one outcome of the random module for a call: the fill method drawn from
\* na (and from interp when it is 'interpolate'), the depth (-1 when
\* randint has an empty range), the None / Some draw, and the names of the
\* one random.choices call over the transformer list
Draw(na_choice, interpolate, num_trans, test, picks) ==
  [na_choice |-> na_choice, interpolate |-> interpolate,
   num_trans |-> num_trans, test |-> test, picks |-> picks]

FillDraws(args, na, interp) ==
  IF args.no_nan_fill THEN {<<"None", "None">>}
  ELSE {<<x, "None">> : x \in Weighted(na) \ {"interpolate"}}
       \cup {<<"interpolate", y>> :
               y \in IF "interpolate" \in Weighted(na) THEN Weighted(interp)
                     ELSE {}}

PickDraws(args, num_trans, test) ==
  IF num_trans = 1 /\ args.allow_none /\ test = "None" THEN {<<>>}
  ELSE IF args.traditional_order
  THEN [1..4 -> Weighted(transformer_list_to_dict(args.transformer_list))]
  ELSE [1..num_trans -> Weighted(transformer_list_to_dict(args.transformer_list))]

Draws(args, na, interp) ==
  IF MinDepth(args) > MaxDepth(args)
  THEN {Draw(f[1], f[2], -1, "Some", <<>>) : f \in FillDraws(args, na, interp)}
  ELSE UNION { UNION { { Draw(f[1], f[2], n, test, picks) :
                           f \in FillDraws(args, na, interp),
                           picks \in PickDraws(args, n, test) } :
                       test \in IF n = 1 /\ args.allow_none
                                THEN {"None", "Some"} ELSE {"Some"} } :
               n \in MinDepth(args)..MaxDepth(args) }

\* the traditional order with the free slot last
AlignBeforeFreeSlot(list, picks) ==
  << IF "ClipOutliers" \in list THEN "ClipOutliers" ELSE picks[1],
     IF "Detrend" \in list THEN "Detrend" ELSE picks[2],
     IF "AlignLastValue" \in list THEN "AlignLastValue" ELSE picks[3],
     picks[4] >>

\* trans of the traditional order: clip, detrend, the free slot, align,
\* each taken from the random picks when its name is not in the list
TraditionalOrder(list, picks) ==
  << IF "ClipOutliers" \in list THEN "ClipOutliers" ELSE picks[1],
     IF "Detrend" \in list THEN "Detrend" ELSE picks[2],
     picks[4],
     IF "AlignLastValue" \in list THEN "AlignLastValue" ELSE picks[3] >>

\* get_transformer_params(x, method): the parameters drawn for x
get_transformer_params(transformer, method) ==
  [transformer |-> transformer, method |-> method]

\* the sampled names of a call
Trans(args, rnd) ==
  IF args.traditional_order
  THEN SubSeq(TraditionalOrder(DOMAIN transformer_list_to_dict(args.transformer_list),
                               rnd.picks),
              1, Min(rnd.num_trans, 4))
  ELSE rnd.picks

\* dict(zip(range(len(trans)), trans))
ZipKeys(trans) == [k \in 0..(Len(trans) - 1) |-> trans[k + 1]]

NoDraw ==
  [called |-> FALSE,
   args |-> RandomTransformArgs(TransformerList("", <<>>), 0, "None", "None",
                                FALSE, 0, FALSE, FALSE),
   status |-> "none", err |-> "", fillna |-> "", num_trans |-> -1,
   collapsed |-> FALSE, trans |-> <<>>, transformations |-> <<>>,
   transformation_params |-> <<>>]

\* RandomTransform with the random module's outcome rnd: what the caller
\* gets
RandomTransform(args, rnd) ==
  IF rnd.num_trans = -1
  THEN [NoDraw EXCEPT !.called = TRUE, !.args = args, !.status = "raised",
                      !.err = "ValueError: empty range for randrange"]
  ELSE IF rnd.num_trans = 1 /\ args.allow_none /\ rnd.test = "None"
  THEN [called |-> TRUE, args |-> args, status |-> "returned", err |-> "",
        fillna |-> IF rnd.na_choice = "interpolate" THEN rnd.interpolate
                   ELSE rnd.na_choice,
        num_trans |-> 1, collapsed |-> TRUE, trans |-> <<>>,
        transformations |-> (0 :> "None"),
        transformation_params |-> (0 :> get_transformer_params("None", "None"))]
  ELSE [called |-> TRUE, args |-> args, status |-> "returned", err |-> "",
        fillna |-> IF rnd.na_choice = "interpolate" THEN rnd.interpolate
                   ELSE rnd.na_choice,
        num_trans |-> rnd.num_trans, collapsed |-> FALSE,
        trans |-> Trans(args, rnd),
        transformations |-> ZipKeys(Trans(args, rnd)),
        transformation_params |->
          ZipKeys([k \in 1..Len(Trans(args, rnd)) |->
                     get_transformer_params(Trans(args, rnd)[k],
                                            ParamsMethod(args))])]

\* ------------------------------------------------------------------------
\* SinTrend: one sine fitted per column
\* ------------------------------------------------------------------------
\* fit runs its loop in the calling thread below this number of columns
ParallelMinCols == 100

\* a SinTrend(n_jobs) and the columns of the frame given to fit; pc is the
\* position of fit, df_list the rows gathered so far
SinTrend_init(n_jobs, cols) ==
  [made |-> TRUE, n_jobs |-> n_jobs, cols |-> cols, pc |-> "idle",
   df_list |-> <<>>, fitted |-> FALSE, sin_params |-> <<>>, err |-> ""]

NoSinTrend == [SinTrend_init(1, <<>>) EXCEPT !.made = FALSE]

\* fit_sin(X, df[col]): the parameters fitted to one column
fit_sin(col) == [amp |-> col, omega |-> col, phase |-> col, offset |-> col]

\* fit up to the with block: parallel is assigned (False) only when n_jobs
\* is 0 or 1 or the frame has fewer than ParallelMinCols columns, and read
\* right after
SinTrend_fit_enter(self) ==
  IF self.n_jobs \in {0, 1} \/ Len(self.cols) < ParallelMinCols
  THEN [self EXCEPT !.pc = "loop", !.df_list = <<>>]
  ELSE [self EXCEPT !.pc = "raised",
          !.err = "UnboundLocalError: local variable 'parallel' referenced before assignment"]

\* one turn of the loop over cols
SinTrend_fit_col(self) ==
  [self EXCEPT !.df_list = Append(@, fit_sin(self.cols[Len(@) + 1]))]

\* the end of fit: sin_params = pd.DataFrame(df_list)
SinTrend_fit_return(self) ==
  [self EXCEPT !.pc = "returned", !.fitted = TRUE, !.sin_params = self.df_list]

\* ------------------------------------------------------------------------
\* AnomalyRemoval: detection at fit, a classifier of scores trained on
\* demand
\* ------------------------------------------------------------------------
\* detect_anomalies(df, ...): the anomalies and the scores of a frame; fit
\* tells the fits of one object apart (0 before the first)
detect_anomalies(fit, df) == [fit |-> fit, df |-> df]

NoDetection == detect_anomalies(0, "")

\* AnomalyRemoval.__init__: no classifier; anomalies and scores are
\* attributes only once fit has run
AnomalyRemoval_init ==
  [made |-> TRUE, fits |-> 0, detected |-> NoDetection,
   anomaly_classifier |-> "None", trained_on |-> NoDetection,
   op |-> "none", status |-> "none", err |-> "", res |-> NoDetection]

NoAnomalyRemoval == [AnomalyRemoval_init EXCEPT !.made = FALSE]

\* fit: anomalies and scores of df; anomaly_classifier is not assigned
AnomalyRemoval_fit(self, df) ==
  [self EXCEPT !.fits = @ + 1, !.detected = detect_anomalies(self.fits + 1, df),
               !.op = "fit", !.status = "returned", !.err = "",
               !.res = NoDetection]

\* fit_anomaly_classifier: a decision tree on self.scores, self.anomalies
fit_anomaly_classifier(self) ==
  [self EXCEPT !.anomaly_classifier = "DecisionTreeClassifier",
               !.trained_on = self.detected]

\* score_to_anomaly from the None test on: res names the detection whose
\* classifier labelled the scores
predict(self) ==
  [self EXCEPT !.op = "score_to_anomaly", !.status = "returned", !.err = "",
               !.res = self.trained_on]

\* score_to_anomaly(scores)
score_to_anomaly(self) ==
  IF self.anomaly_classifier = "None"
  THEN IF self.fits = 0
       THEN [self EXCEPT !.op = "score_to_anomaly", !.status = "raised",
               !.err = "AttributeError: 'AnomalyRemoval' object has no attribute 'scores'",
               !.res = NoDetection]
       ELSE predict(fit_anomaly_classifier(self))
  ELSE predict(self)

\* ------------------------------------------------------------------------
\* date_part(DTindex, method) of autots.tools.seasonal, methods
\* 'common_fourier' and 'common_fourier_rw'
\* ------------------------------------------------------------------------
\* A DatetimeIndex of n stamps, step hours apart, the first one start hours
\* after 2000-01-01 00:00
DatetimeIndex(start, step, n) == [start |-> start, step |-> step, n |-> n]

IsLeap(y) == y % 4 = 0 /\ (y % 100 # 0 \/ y % 400 = 0)

HoursIn(y) == IF IsLeap(y) THEN 366 * 24 ELSE 365 * 24

\* Timestamp.year of the stamp h hours after the first hour of year y
RECURSIVE YearFrom(_, _)
YearFrom(h, y) == IF h < HoursIn(y) THEN y ELSE YearFrom(h - HoursIn(y), y + 1)

YearOf(h) == YearFrom(h, 2000)

DTmin(DTindex) == DTindex.start

DTmax(DTindex) == DTindex.start + (DTindex.n - 1) * DTindex.step

\* the ratio with the year of the first stamp left out of the count
RatioWithoutFirstYear(DTindex) ==
  Norm(YearOf(DTmax(DTindex)) - YearOf(DTmin(DTindex)), DTindex.n)

\* (DTmax.year - DTmin.year + 1) / len(DTindex)
seasonal_ratio(DTindex) ==
  Norm(YearOf(DTmax(DTindex)) - YearOf(DTmin(DTindex)) + 1, DTindex.n)

\* fourier_series(t, p, n) with t in unit, the period p in hundredths
fourier_series(unit, p100, n) ==
  [unit |-> unit, p100 |-> p100, n |-> n, by_p100 |-> 0, by_n |-> 0]

\* fourier_series(t, p, n) * fourier_series(t, q, m)
fourier_product(unit, p100, n, q100, m) ==
  [unit |-> unit, p100 |-> p100, n |-> n, by_p100 |-> q100, by_n |-> m]

\* seasonal_list as the if-chain over seasonal_ratio fills it
seasonal_list(ratio) ==
  IF RLt(ratio, Norm(1, 1000))
  THEN << fourier_series("hours", 876600, 10),
          fourier_series("hours", 2400, 3),
          fourier_series("hours", 16800, 5),
          fourier_product("hours", 16800, 5, 2400, 5),
          fourier_product("hours", 16800, 3, 876600, 3) >>
  ELSE IF RLt(ratio, Norm(12, 1000))
  THEN << fourier_series("days", 36525, 10),
          fourier_series("days", 700, 3),
          fourier_product("days", 700, 5, 700, 5) >>
  ELSE IF RLt(ratio, Norm(5, 100))
  THEN << fourier_series("days", 36525, 10),
          fourier_series("days", 2800, 3) >>
  ELSE IF RLt(ratio, Norm(1, 2))
  THEN << fourier_series("days", 36525, 3),
          fourier_series("days", 146100, 10) >>
  ELSE << fourier_series("days", 146100, 10) >>

\* A method name, by the parts the tests of date_part tell names apart
\* with: a name is in another name when its parts are a run of the other's.
MethodParts(method) ==
  CASE method = "recurring" -> <<"recurring">>
    [] method = "simple" -> <<"simple">>
    [] method = "simple_poly" -> <<"simple", "_poly">>
    [] method = "expanded" -> <<"expanded">>
    [] method = "expanded_poly" -> <<"expanded", "_poly">>
    [] method = "simple_2" -> <<"simple", "_2">>
    [] method = "simple_2_poly" -> <<"simple", "_2", "_poly">>
    [] method = "simple_3" -> <<"simple", "_3">>
    [] method = "lunar_phase" -> <<"lunar_phase">>
    [] method = "simple_binarized" -> <<"simple", "_binarized">>
    [] method = "simple_binarized_poly" -> <<"simple", "_binarized", "_poly">>
    [] method = "expanded_binarized" -> <<"expanded", "_binarized">>
    [] method = "common_fourier" -> <<"common_fourier">>
    [] method = "common_fourier_rw" -> <<"common_fourier", "_rw">>

\* a in b of two strings
StrIn(a, b) ==
  \E i \in 0..(Len(b) - Len(a)) : SubSeq(b, i + 1, i + Len(a)) = a

\* method.replace("_poly", "")
WithoutPoly(parts) == SelectSeq(parts, LAMBDA x : x # "_poly")

SimpleColumns == <<"year", "month", "day", "weekday">>

ExpandedColumns ==
  <<"hour", "week", "quarter", "dayofyear", "midyear", "weekend",
    "weekdayofmonth", "month_end", "month_start", "quarter_end", "year_end",
    "daysinmonth", "epoch", "us_election_year">>

\* the columns of date_part_df before the polynomial features, for the
\* method with "_poly" taken off; get_dummies puts the columns it makes
\* (one a category, named here by their range) after the others
date_part_df(method) ==
  IF method = <<"recurring">>
    THEN <<"month", "day", "weekday", "weekend", "hour", "quarter", "midyear">>
  ELSE IF method \in {<<"simple", "_2">>, <<"simple", "_2", "_poly">>}
    THEN <<"month", "day", "weekday", "weekend", "epoch">>
  ELSE IF method \in {<<"simple", "_3">>, <<"lunar_phase">>}
    THEN <<"weekend", "quarter", "epoch", "month_1..12", "weekday_0..6">>
           \o (IF method = <<"lunar_phase">> THEN <<"phase">> ELSE <<>>)
  ELSE IF StrIn(<<"simple", "_binarized">>, method)
    THEN <<"day", "weekend", "epoch", "month_1..12", "weekday_0..6">>
  ELSE IF StrIn(method, <<"expanded", "_binarized">>)
    THEN <<"weekend", "quarter", "epoch", "month_1..12", "weekday_0..6",
           "day_1..31", "weekdayofmonth_1..5">>
  ELSE IF method \in {<<"common_fourier">>, <<"common_fourier", "_rw">>}
    THEN <<"seasonalitycommonfourier_0..">>
           \o (IF method = <<"common_fourier", "_rw">> THEN <<"epoch">> ELSE <<>>)
  ELSE SimpleColumns
         \o (IF method = <<"expanded">> THEN ExpandedColumns ELSE <<>>)

\* what date_part returns: its columns (the columns PolynomialFeatures is
\* given when polynomial is set), and for the fourier methods the harmonics
\* of seasonal_list and the epoch column of 'common_fourier_rw'
date_part(DTindex, method) ==
  [called |-> TRUE, DTindex |-> DTindex, method |-> method,
   columns |-> date_part_df(WithoutPoly(MethodParts(method))),
   polynomial |-> StrIn(<<"_poly">>, MethodParts(method)),
   seasonal_ratio |->
     IF method \in {"common_fourier", "common_fourier_rw"}
     THEN seasonal_ratio(DTindex) ELSE NaN,
   seasonal_list |->
     IF method \in {"common_fourier", "common_fourier_rw"}
     THEN seasonal_list(seasonal_ratio(DTindex)) ELSE <<>>,
   epoch |-> method = "common_fourier_rw"]

NoDatePart ==
  [called |-> FALSE, DTindex |-> DatetimeIndex(0, 0, 0), method |-> "",
   columns |-> <<>>, polynomial |-> FALSE,
   seasonal_ratio |-> NaN, seasonal_list |-> <<>>, epoch |-> FALSE]

\* ---- LocalLinearTrend ----
\* A frame is kept here by its DatetimeIndex, as Julian dates in days, and
\* by one of its columns: every step of the class works column by column.
Dated(index, values) == [index |-> index, values |-> values]

LocalLinearTrend_init(rolling_window, n_future, method) ==
  [made |-> TRUE, rolling_window |-> rolling_window, n_future |-> n_future,
   method |-> method, dates |-> <<>>, slope |-> <<>>, intercept |-> <<>>,
   full_slope |-> <<>>, full_intercept |-> <<>>, full_dates |-> <<>>,
   op |-> "none", ok |-> TRUE, err |-> "", X |-> Dated(<<>>, <<>>),
   idx |-> <<>>, out |-> <<>>, fit_out |-> <<>>, of |-> Dated(<<>>, <<>>)]

NoLocalLinearTrend ==
  [LocalLinearTrend_init(R(1), R(1), "mean") EXCEPT !.made = FALSE]

\* int(x) of a rational: towards zero
IntOf(x) ==
  IF x[1] >= 0 THEN x[1] \div x[2] ELSE -((-x[1]) \div x[2])

\* an argument below 1 is a share of the number of dates
ShareOfDates(x, n) == IF RLt(x, R(1)) THEN R(IntOf(RMul(x, R(n)))) ELSE x

\* c[0:k] and c[-k:] of an array of rows
FirstRows(c, k) == SubSeq(c, 1, IF k < Len(c) THEN k ELSE Len(c))

LastRows(c, k) ==
  IF k = 0 \/ k >= Len(c) THEN c ELSE SubSeq(c, Len(c) - k + 1, Len(c))

RECURSIVE np_sum(_)
np_sum(c) == IF c = <<>> THEN R(0) ELSE RAdd(Head(c), np_sum(Tail(c)))

\* np.mean and np.median along the rows: NaN for no rows
np_mean(c) == IF c = <<>> THEN NaN ELSE RDiv(np_sum(c), R(Len(c)))

np_median(c) ==
  IF c = <<>> \/ \E t \in 1..Len(c) : IsNaN(c[t]) THEN NaN
  ELSE MedianSkipNa(c)

EdgeStatistic(method, c) ==
  CASE method = "mean" -> np_mean(c)
    [] method = "median" -> np_median(c)

\* slope * dates_2d + intercept, row by row
TrendLine(slope, dates, intercept) ==
  [t \in 1..Len(dates) |-> RAdd(RMul(slope[t], dates[t]), intercept[t])]

ColSub(a, b) == [t \in 1..Len(a) |-> RSub(a[t], b[t])]

ColAdd(a, b) == [t \in 1..Len(a) |-> RAdd(a[t], b[t])]

LocalLinearTrend_raise(self, op, X, err) ==
  [self EXCEPT !.op = op, !.X = X, !.ok = FALSE, !.err = err, !.out = <<>>,
               !.idx = <<>>]

\* the attributes _fit sets from what window_lin_reg_mean returned (reg),
\* and the frame it returns; k is n_future as a number of rows
LocalLinearTrend_fitted(self, X, reg, k) ==
  [self EXCEPT
     !.op = "fit_transform", !.X = X, !.ok = TRUE, !.err = "", !.idx = <<>>,
     !.dates = X.index, !.slope = reg.slope, !.intercept = reg.intercept,
     !.full_slope =
        <<EdgeStatistic(self.method, FirstRows(reg.slope, k))>> \o reg.slope
          \o <<EdgeStatistic(self.method, LastRows(reg.slope, k)),
               EdgeStatistic(self.method, LastRows(reg.slope, k))>>,
     !.full_intercept =
        <<EdgeStatistic(self.method, FirstRows(reg.intercept, k))>>
          \o reg.intercept
          \o <<EdgeStatistic(self.method, LastRows(reg.intercept, k)),
               EdgeStatistic(self.method, LastRows(reg.intercept, k))>>,
     !.full_dates =
        <<RSub(MinSkipNa(X.index), Norm(1, 100))>> \o X.index
          \o <<RAdd(MaxSkipNa(X.index), Norm(1, 100))>>,
     !.out = ColSub(X.values, TrendLine(reg.slope, X.index, reg.intercept)),
     !.fit_out = ColSub(X.values, TrendLine(reg.slope, X.index, reg.intercept))]

\* _fit from the rolling trend on: w is the window as a number of rows;
\* np.full raises for a negative number of rows
LocalLinearTrend_rolling(self, X, reg, w, k) ==
  IF (w - 1) - IntOf(Norm(w - 1, 2)) < 0
    THEN LocalLinearTrend_raise(self, "fit_transform", X,
                                "ValueError: negative dimensions are not allowed")
  ELSE IF reg.raises
    THEN LocalLinearTrend_raise(self, "fit_transform", X, "window_lin_reg_mean")
  ELSE LocalLinearTrend_fitted(self, X, reg, k)

\* a share given for n_future is replaced by the number of rows it makes
LocalLinearTrend_n_future(self, X, reg) ==
  IF RLe(self.n_future, R(0))
    THEN LocalLinearTrend_raise(self, "fit_transform", X,
                                "ValueError: n_future arg is not valid")
  ELSE LocalLinearTrend_rolling(
         [self EXCEPT !.n_future = ShareOfDates(self.n_future, Len(X.index))],
         X, reg, IntOf(self.rolling_window),
         IntOf(ShareOfDates(self.n_future, Len(X.index))))

\* _fit: a share given for rolling_window is replaced first
LocalLinearTrend__fit(self, X, reg) ==
  IF RLe(self.rolling_window, R(0))
    THEN LocalLinearTrend_raise(self, "fit_transform", X,
                                "ValueError: rolling_window arg is not valid")
  ELSE LocalLinearTrend_n_future(
         [self EXCEPT !.rolling_window =
                         ShareOfDates(self.rolling_window, Len(X.index))],
         X, reg)

LocalLinearTrend_fit_transform(self, X, reg) ==
  LocalLinearTrend__fit(self, X, reg)

\* numpy.searchsorted(a, v) of a sorted array: the number of entries below v
searchsorted(a, v) == Cardinality({i \in 1..Len(a) : RLt(a[i], v)})

\* full_slope[idx] * dates_2d + full_intercept[idx] (arrays count from 0)
LookedUpTrend(self, dates, idx) ==
  [t \in 1..Len(dates) |->
     RAdd(RMul(self.full_slope[idx[t] + 1], dates[t]),
          self.full_intercept[idx[t] + 1])]

\* transform and inverse_transform after the lookup; an index past the end
\* of the padded arrays is an IndexError
LocalLinearTrend_apply(self, op, X, idx) ==
  IF \E t \in 1..Len(idx) : idx[t] + 1 > Len(self.full_slope)
    THEN [LocalLinearTrend_raise(self, op, X, "IndexError") EXCEPT !.idx = idx]
  ELSE [self EXCEPT
          !.op = op, !.X = X, !.ok = TRUE, !.err = "", !.idx = idx,
          !.out = IF op = "transform"
                    THEN ColSub(X.values, LookedUpTrend(self, X.index, idx))
                    ELSE ColAdd(X.values, LookedUpTrend(self, X.index, idx))]

LocalLinearTrend_transform(self, X) ==
  LocalLinearTrend_apply(self, "transform", X,
    [t \in 1..Len(X.index) |-> searchsorted(self.full_dates, X.index[t])])

LocalLinearTrend_inverse_transform(self, X) ==
  LocalLinearTrend_apply(self, "inverse_transform", X,
    [t \in 1..Len(X.index) |-> searchsorted(self.full_dates, X.index[t])])

\* ---- seasonal_int ----
\* the keys of prob_dict (every weight is positive); -1 stands for the
\* uniform draw
prob_dict == {-1, 1, 2, 4, 7, 10, 12, 24, 28, 60, 96, 168, 364, 1440, 420, 52, 84}

\* one activation of seasonal_int: its arguments, its lag and where it is
Activation(include_one, small, very_small) ==
  [include_one |-> include_one, small |-> small, very_small |-> very_small,
   pc |-> "choices", lag |-> 0]

\* a call by the caller and the activations it stands at, the innermost
\* last
seasonal_int_enter(include_one, small, very_small) ==
  [called |-> TRUE, include_one |-> include_one, small |-> small,
   very_small |-> very_small,
   stack |-> <<Activation(include_one, small, very_small)>>,
   returned |-> FALSE, result |-> 0]

NoSeasonalInt ==
  [seasonal_int_enter(FALSE, FALSE, FALSE) EXCEPT !.called = FALSE, !.stack = <<>>]

Innermost(call) == call.stack[Len(call.stack)]

SetInnermost(call, act) == [call EXCEPT !.stack[Len(call.stack)] = act]

\* lag = random.choices(...)[0], then the test for the uniform draw
seasonal_int_choices(call, lag) ==
  SetInnermost(call, [Innermost(call) EXCEPT
                        !.lag = lag,
                        !.pc = IF lag = -1 THEN "randint" ELSE "include_one"])

\* lag = random.randint(2, 100)
seasonal_int_randint(call, lag) ==
  SetInnermost(call, [Innermost(call) EXCEPT !.lag = lag, !.pc = "include_one"])

\* whether the activation calls seasonal_int again where it stands
seasonal_int_calls(act) ==
  \/ act.pc = "include_one" /\ ~act.include_one /\ act.lag = 1
  \/ act.pc = "very_small" /\ act.very_small /\ act.lag > 30

\* the inner call made: the one for a lag of 1 passes all three arguments
\* on, the one of the loop leaves small at its default
seasonal_int_call_again(call) ==
  [call EXCEPT
     !.stack = Append(SetInnermost(call, [Innermost(call) EXCEPT
                                            !.pc = "in_" \o Innermost(call).pc]).stack,
                      Activation(Innermost(call).include_one,
                                 Innermost(call).pc = "include_one"
                                   /\ Innermost(call).small,
                                 Innermost(call).very_small))]

\* a step with no call and no draw: past the test for 1, or the cap of
\* small
seasonal_int_step(call) ==
  SetInnermost(call,
    IF Innermost(call).pc = "include_one"
    THEN [Innermost(call) EXCEPT !.pc = "small"]
    ELSE [Innermost(call) EXCEPT
            !.lag = IF Innermost(call).small /\ ~(Innermost(call).lag < 364)
                    THEN 364 ELSE Innermost(call).lag,
            !.pc = "very_small"])

\* return int(lag): to the caller, or to the activation that called, which
\* goes on after its call (the loop tests lag again)
seasonal_int_return(call) ==
  IF Len(call.stack) = 1
  THEN [call EXCEPT !.stack = <<>>, !.returned = TRUE,
                    !.result = Innermost(call).lag]
  ELSE [call EXCEPT
          !.stack =
             Append(SubSeq(call.stack, 1, Len(call.stack) - 2),
                    [call.stack[Len(call.stack) - 1] EXCEPT
                       !.lag = Innermost(call).lag,
                       !.pc = IF call.stack[Len(call.stack) - 1].pc = "in_include_one"
                              THEN "small" ELSE "very_small"])]

\* ---- a transformer object constructed and called by the caller ----
\* the object, its last call, and the frame it was last fitted on
DirectNew(cls, p) ==
  [made |-> TRUE, st |-> NewStep(cls, p), op |-> "none", ok |-> TRUE,
   err |-> "", arg |-> <<>>, out |-> <<>>, ret |-> "", X |-> <<>>,
   ext |-> CHOOSE e \in ExternalOutcomes : ~e.sk_raises /\ ~e.holiday]

NoDirect == [DirectNew("EmptyTransformer", DefaultParams) EXCEPT !.made = FALSE]

\* the object and the caller after the call op(arg) ended as res
DirectCall(self, op, arg, res) ==
  [self EXCEPT !.st = res.st, !.op = op, !.ok = res.ok, !.err = res.err,
               !.arg = arg, !.out = res.df,
               !.ret = IF op = "fit" THEN res.ret ELSE "frame",
               !.X = IF op \in {"fit", "fit_transform"} THEN arg ELSE self.X]

\* ------------------------------------------------------------------------
\* State: the GeneralTransformer objects of one process, the catalogs of
\* the module, and the objects and calls of its other functions
\* ------------------------------------------------------------------------
VARIABLES
  transformations,        \* per instance: key -> transformation name
  transformation_params,  \* per instance: key -> parameters of the step
  transformers,           \* per instance: key -> slot (self.transformers)
  trans_dict,             \* the module's shared objects, by name
  last,                   \* the last call made and how it ended
  na_probs,               \* the module's catalog of NaN-fill methods
  df_interpolate,         \* the catalog of interpolation methods
  drawn,                  \* the last call of RandomTransform
  sin_trend,              \* a SinTrend object
  anomaly_removal,        \* an AnomalyRemoval object
  date_part_call,         \* the last call of date_part
  local_linear_trend,     \* a LocalLinearTrend object
  seasonal_int_call,      \* the last call of seasonal_int
  direct                  \* transformer objects used without an orchestrator

pipeline_vars ==
  <<transformations, transformation_params, transformers, trans_dict, last>>

tool_vars ==
  <<na_probs, df_interpolate, drawn, sin_trend, anomaly_removal, date_part_call>>

call_vars == <<local_linear_trend, seasonal_int_call, direct>>

vars == <<pipeline_vars, tool_vars, call_vars>>

CallsIdle ==
  /\ local_linear_trend = NoLocalLinearTrend
  /\ seasonal_int_call = NoSeasonalInt
  /\ direct = NoDirect

\* the catalogs as imported and no call made of the other functions
ToolsIdleOnly ==
  /\ na_probs = na_probs_init
  /\ df_interpolate = df_interpolate_init
  /\ drawn = NoDraw
  /\ sin_trend = NoSinTrend
  /\ anomaly_removal = NoAnomalyRemoval
  /\ date_part_call = NoDatePart

ToolsIdle == ToolsIdleOnly /\ CallsIdle

Instances == DOMAIN transformations

\* pipelines the instances are built with
Step(name, p) == [name |-> name, p |-> p]

Pipelines ==
  [single_diff |->
     (0 :> Step("DifferencedTransformer", DefaultParams)),
   seasonal7 |->
     (1 :> Step("SeasonalDifference7", DefaultParams)),
   three_steps |->
     (0 :> Step("CumSumTransformer", DefaultParams)
      @@ 2 :> Step("CenterLastValue", [DefaultParams EXCEPT !.rows = 1])
      @@ 5 :> Step("DifferencedTransformer", DefaultParams)),
   coint_cumsum |->
     (0 :> Step("Cointegration", DefaultParams)
      @@ 1 :> Step("CumSumTransformer", DefaultParams)),
   holiday |->
     (0 :> Step("HolidayTransformer",
                [DefaultParams EXCEPT !.impact = "median_value",
                                      !.remove_excess_anomalies = FALSE])
      @@ 1 :> Step("PositiveShift", DefaultParams)),
   align |->
     (0 :> Step("RollingMeanTransformer",
                [DefaultParams EXCEPT !.window = 2, !.fixed = FALSE])
      @@ 1 :> Step("FixedRollingMean", [DefaultParams EXCEPT !.window = 2])
      @@ 2 :> Step("AlignLastValue",
                   [DefaultParams EXCEPT !.method = "additive", !.rows = 1,
                                         !.lag = 1])),
   pca |->
     (0 :> Step("PCA", DefaultParams)),
   slice_fastica |->
     (0 :> Step("Slice", [DefaultParams EXCEPT !.slice = [form |-> "int", n |-> 2]])
      @@ 1 :> Step("FastICA", DefaultParams)),
   shift_btcd |->
     (0 :> Step("PositiveShift", DefaultParams)
      @@ 3 :> Step("BTCD", DefaultParams)),
   empty |-> <<>>]

\* the GeneralTransformer objects a process constructs, and the pipeline
\* of each
Configs ==
  { [i \in {"A", "B"} |-> Pipelines.single_diff],
    ("A" :> Pipelines.coint_cumsum @@ "B" :> Pipelines.seasonal7),
    ("A" :> Pipelines.three_steps),
    ("A" :> Pipelines.holiday),
    ("A" :> Pipelines.align),
    ("A" :> Pipelines.pca),
    ("A" :> Pipelines.slice_fastica),
    ("A" :> Pipelines.shift_btcd),
    ("A" :> Pipelines.empty) }

\* frames given to fit and transform (NaN-free, so fill_na returns them
\* as they are) and to inverse_transform
FitFrames ==
  { IntFrame(<< <<2>>, <<0>>, <<5>> >>),
    IntFrame(<< <<1, 4>>, <<2, 0>> >>),
    IntFrame(<< <<0, 1>>, <<3, 3>>, <<-1, 2>> >>) }

InverseFrames ==
  { IntFrame(<< <<1, 4>>, <<2, 0>> >>),
    IntFrame(<< <<3>> >>),
    << <<R(1)>>, <<NaN>> >> }

NoCall ==
  [inst |-> "none", op |-> "none", arg |-> <<>>, trans_method |-> "unset",
   bounds |-> "unset", status |-> "none", wrapped |-> FALSE, named |-> "",
   phase |-> "", err |-> "", at |-> -1, df |-> <<>>, trace |-> <<>>,
   caller |-> <<>>]

Init ==
  /\ \E c \in Configs :
       /\ transformations = [i \in DOMAIN c |-> [k \in DOMAIN c[i] |-> c[i][k].name]]
       /\ transformation_params = [i \in DOMAIN c |-> [k \in DOMAIN c[i] |-> c[i][k].p]]
       /\ transformers = [i \in DOMAIN c |-> <<>>]
  /\ trans_dict = trans_dict_init
  /\ last = NoCall
  /\ ToolsIdle

\* how a call that ran the loop to pr ended, for the caller: _fit and
\* inverse_transform wrap the exception of a step in a new one that names
\* self.transformations[i]; transform has no try block
Ended(inst, op, arg, trans_method, bounds, pr, wraps, df) ==
  [inst |-> inst, op |-> op, arg |-> arg, trans_method |-> trans_method,
   bounds |-> bounds,
   status |-> IF pr.ok THEN "returned" ELSE "raised",
   wrapped |-> ~pr.ok /\ wraps,
   named |-> IF ~pr.ok /\ wraps THEN pr.name ELSE "",
   phase |-> IF ~pr.ok /\ wraps THEN op ELSE "",
   err |-> pr.err, at |-> pr.at,
   df |-> IF pr.ok THEN df ELSE <<>>,
   trace |-> pr.trace,
   caller |-> pr.caller]

\* the object and the caller after the loop of a call ended as pr
Return(inst, op, arg, trans_method, bounds, pr, wraps, fillzero) ==
  /\ transformers' = [transformers EXCEPT ![inst] = pr.tfs]
  /\ trans_dict' = pr.td
  /\ last' = Ended(inst, op, arg, trans_method, bounds, pr, wraps,
                   IF fillzero THEN FillZero(pr.df) ELSE pr.df)
  /\ UNCHANGED <<transformations, transformation_params, tool_vars, call_vars>>

\* GeneralTransformer.fit / fit_transform: both run _fit
GT_fit(inst, df, ext) ==
  Return(inst, "fit", df, "unset", "unset",
         fit_loop(Sorted(DOMAIN transformations[inst]), 1,
                  transformations[inst], transformation_params[inst],
                  Progress(df, transformers[inst], trans_dict, <<>>),
                  df, ext),
         TRUE, FALSE)

\* GeneralTransformer.transform
GT_transform(inst, df) ==
  Return(inst, "transform", df, "unset", "unset",
         transform_loop(Sorted(DOMAIN transformations[inst]), 1,
                        transformations[inst],
                        [Progress(df, transformers[inst], trans_dict, <<>>)
                           EXCEPT !.own = FALSE]),
         FALSE, FALSE)

\* GeneralTransformer.inverse_transform
GT_inverse_transform(inst, df, trans_method, fillzero, bounds) ==
  Return(inst, "inverse_transform", df, trans_method, bounds,
         inverse_loop(SortedReverse(DOMAIN transformations[inst]), 1,
                      transformations[inst],
                      Progress(df, transformers[inst], trans_dict, <<>>),
                      trans_method, bounds),
         TRUE, fillzero)

Next ==
  \/ \E inst \in Instances, df \in FitFrames, ext \in ExternalOutcomes :
       GT_fit(inst, df, ext)
  \/ \E inst \in Instances, df \in FitFrames : GT_transform(inst, df)
  \/ \E inst \in Instances, df \in InverseFrames,
        trans_method \in {"forecast", "original"}, fillzero \in BOOLEAN,
        bounds \in {"True", "False"} :
       GT_inverse_transform(inst, df, trans_method, fillzero, bounds)

Spec == Init /\ [][Next]_vars

\* ------------------------------------------------------------------------
\* Properties of the orchestrator
\* ------------------------------------------------------------------------
\* the state of the steps an instance would use now, without the marker
\* of the frame it was fitted on
Resolved(a) ==
  [k \in DOMAIN transformers[a] |->
     [Deref(transformers[a][k], trans_dict) EXCEPT !.src = <<>>]]

\* C1: a call made on one GeneralTransformer instance leaves the fitted
\* state of the steps of every other instance as it was, so that the other
\* instance's inverse_transform is not affected by it.
C1_StateNotShared ==
  [][\A a \in DOMAIN transformers :
       a # last'.inst => Resolved(a)' = Resolved(a)]_vars

\* C2: in every call the steps are applied in ascending key order by fit
\* and transform and in descending key order by inverse_transform, each
\* step receives the output of the step applied before it (the first one
\* the caller's frame), and a call that returns has applied every step
\* exactly once.
C2_Order ==
  last.op # "none" =>
    LET t == last.trace
        keys == DOMAIN transformations[last.inst]
    IN  /\ \A n \in 1..Len(t) :
             /\ t[n].key \in keys
             /\ t[n].name = transformations[last.inst][t[n].key]
             /\ t[n].inp = IF n = 1 THEN last.arg ELSE t[n - 1].out
        /\ \A n, m \in 1..Len(t) :
             n < m => IF last.op = "inverse_transform"
                      THEN t[n].key > t[m].key
                      ELSE t[n].key < t[m].key
        /\ last.status = "returned" => {t[n].key : n \in 1..Len(t)} = keys

\* a returned inverse_transform over three steps, none of them the identity
C2_Witness ==
  /\ last.op = "inverse_transform"
  /\ last.status = "returned"
  /\ Len(last.trace) = 3
  /\ \A n \in 1..3 : last.trace[n].out # last.trace[n].inp

\* C3: a call that ends by a step raising gives the caller an exception
\* that names that step, and the step that raised is the last one the
\* call executed.
C3_FailureNamesStep ==
  (/\ last.status = "raised"
   /\ last.trace # <<>>
   /\ ~last.trace[Len(last.trace)].ok) =>
    /\ last.wrapped
    /\ last.named = transformations[last.inst][last.at]
    /\ \A n \in 1..Len(last.trace) :
         last.trace[n].ok = (n < Len(last.trace))

\* C4: transform leaves the fitted state of every step as it was.
C4_TransformKeepsState ==
  [][last'.op = "transform" =>
       \A a \in DOMAIN transformers : Resolved(a)' = Resolved(a)]_vars

\* C5: once a fit call has ended, by returning or by raising, every step
\* the instance holds has state made from the frame of that call.
C5_RefitReplacesAll ==
  last.op = "fit" =>
    \A k \in DOMAIN transformers[last.inst] :
      Deref(transformers[last.inst][k], trans_dict).src = last.arg

\* C9: inverse_transform hands the caller's trans_method, unchanged, to the
\* steps whose names are in the mode-aware list and to no other step, hands
\* the caller's bounds to the AlignLastValue steps and to no other step,
\* and an AlignLastValue step called with bounds=True returns the frame it
\* was given.
C9_ArgumentRouting ==
  last.op = "inverse_transform" =>
    \A n \in 1..Len(last.trace) :
      LET e == last.trace[n]
      IN  /\ e.trans_method =
               IF e.name \in oddities_list THEN last.trans_method ELSE "unset"
          /\ e.bounds =
               IF e.name = "AlignLastValue" THEN last.bounds ELSE "unset"
          /\ (e.name = "AlignLastValue" /\ last.bounds = "True" /\ e.ok)
               => e.out = e.inp

\* a forecast inverse with bounds=True went through an AlignLastValue step
\* (which would have shifted the frame otherwise) and a step outside the
\* mode-aware list
C9_Witness ==
  /\ last.op = "inverse_transform"
  /\ last.trans_method = "forecast"
  /\ last.bounds = "True"
  /\ Len(last.trace) >= 2
  /\ last.trace[1].name = "AlignLastValue"
  /\ last.trace[1].ok
  /\ StepInverse(Deref(transformers[last.inst][last.trace[1].key], trans_dict),
                 last.trace[1].inp, "forecast", "False").df # last.trace[1].inp
  /\ last.trace[2].name = "FixedRollingMean"

\* C10: fit on a frame that reaches a PCA, FastICA, Cointegration or BTCD
\* step with a single column ends with the multivariate-required error of
\* that step, reported with the step's name, and leaves the step unfitted.
C10_MultivariateRequired ==
  last.op = "fit" =>
    \A n \in 1..Len(last.trace) :
      LET e == last.trace[n]
      IN  (e.name \in {"PCA", "FastICA", "Cointegration", "BTCD"}
           /\ NCols(e.inp) = 1) =>
            /\ ~e.ok
            /\ last.status = "raised"
            /\ last.named = e.name
            /\ last.err \in {"ValueError: Coint only works on multivarate series",
                             "ValueError: BTCD only works on multivarate series"}
            /\ ~Deref(transformers[last.inst][e.key], trans_dict).fitted

\* ------------------------------------------------------------------------
\* Round trips of single pipelines: one fresh instance, fitted once on a
\* frame of a bounded family
\* ------------------------------------------------------------------------
\* the one-column frames of 2..MaxRows rows over CellValues, and two frames
\* of two columns
Series ==
  UNION { { [t \in 1..n |-> <<R(f[t])>>] : f \in [1..n -> CellValues] } :
          n \in 2..MaxRows }
  \cup { IntFrame(<< <<1, 4>>, <<2, 0>> >>),
         IntFrame(<< <<0, 1>>, <<3, 3>>, <<-1, 2>> >>) }

Window2 == [DefaultParams EXCEPT !.window = 2, !.fixed = FALSE]

Lag2 == [DefaultParams EXCEPT !.lag_1 = 2, !.method = "LastValue"]

\* pipelines of mode-aware steps only
OddityPipelines ==
  { (0 :> Step("DifferencedTransformer", DefaultParams)),
    (0 :> Step("CumSumTransformer", DefaultParams)),
    (0 :> Step("PctChangeTransformer", DefaultParams)),
    (0 :> Step("MeanDifference", DefaultParams)),
    (0 :> Step("SeasonalDifference", Lag2)),
    (0 :> Step("RollingMeanTransformer", Window2)),
    (0 :> Step("DifferencedTransformer", DefaultParams)
     @@ 1 :> Step("DifferencedTransformer", DefaultParams)),
    (0 :> Step("MeanDifference", DefaultParams)
     @@ 1 :> Step("SeasonalDifference", Lag2)) }

\* pipelines of one step whose name is outside oddities_list
PlainPipelines ==
  { (0 :> Step("None", DefaultParams)),
    (0 :> Step("CenterLastValue", DefaultParams)),
    (0 :> Step("PositiveShift", DefaultParams)),
    (0 :> Step("Cointegration", DefaultParams)),
    (0 :> Step("BTCD", DefaultParams)),
    (0 :> Step("PCA", DefaultParams)),
    (0 :> Step("Round", [DefaultParams EXCEPT !.on_transform = TRUE])),
    (0 :> Step("Slice", [DefaultParams EXCEPT !.slice = [form |-> "int", n |-> 2]])),
    (0 :> Step("ClipOutliers",
               [DefaultParams EXCEPT !.method = "remove",
                                     !.std_threshold = R(1)])) }

InitRoundTrip ==
  /\ \E c \in OddityPipelines \cup PlainPipelines :
       /\ transformations = ("A" :> [k \in DOMAIN c |-> c[k].name])
       /\ transformation_params = ("A" :> [k \in DOMAIN c |-> c[k].p])
  /\ transformers = ("A" :> <<>>)
  /\ trans_dict = trans_dict_init
  /\ last = NoCall
  /\ ToolsIdle

\* the caller builds the instance and fits it once
NextRoundTrip ==
  /\ last.op = "none"
  /\ \E df \in Series, ext \in ExternalOutcomes : GT_fit("A", df, ext)

SpecRoundTrip == InitRoundTrip /\ [][NextRoundTrip]_vars

\* the names of the steps of the instance, in key order
StepNames ==
  [n \in 1..Cardinality(DOMAIN transformations["A"]) |->
     transformations["A"][Sorted(DOMAIN transformations["A"])[n]]]

\* what the instance, as it stands, answers to transform(df) and to
\* inverse_transform(df, trans_method) made after that
TransformNow(df) ==
  transform_loop(Sorted(DOMAIN transformations["A"]), 1, transformations["A"],
                 Progress(df, transformers["A"], trans_dict, <<>>))

InverseAfter(pr, df, trans_method) ==
  inverse_loop(SortedReverse(DOMAIN transformations["A"]), 1,
               transformations["A"], Progress(df, pr.tfs, pr.td, <<>>),
               trans_method, "False")

InverseNow(df, trans_method) ==
  InverseAfter(Progress(df, transformers["A"], trans_dict, <<>>), df,
               trans_method)

FitReturned == last.op = "fit" /\ last.status = "returned"

\* the rows that may follow a fitted series of c columns
MaxFutureRows == 2

Futures(c) ==
  UNION { [1..n -> [1..c -> {R(v) : v \in CellValues}]] : n \in 1..MaxFutureRows }

\* C6: a pipeline of DifferencedTransformer, CumSumTransformer,
\* SeasonalDifference, RollingMeanTransformer and MeanDifference steps,
\* fitted on H, gives back F from inverse_transform(trans_method =
\* 'forecast') of the F rows of its transform of H followed by F.
C6_ForecastRoundTrip ==
  (/\ FitReturned
   /\ \A n \in 1..Len(StepNames) :
        StepNames[n] \in {"DifferencedTransformer", "CumSumTransformer",
                          "SeasonalDifference", "RollingMeanTransformer",
                          "MeanDifference"}) =>
    \A F \in Futures(NCols(last.arg)) :
      LET fwd == TransformNow(last.arg \o F)
          back == InverseAfter(fwd, DfTail(fwd.df, Len(F)), "forecast")
      IN  fwd.ok /\ back.ok /\ back.df = F

\* C7: each of DifferencedTransformer, CumSumTransformer,
\* PctChangeTransformer, MeanDifference, SeasonalDifference and
\* RollingMeanTransformer(fixed=False), fitted with fit_transform on a frame
\* X of two rows or more, gives back X, first row included, from
\* inverse_transform(fit_transform(X), trans_method = 'original').
C7_OriginalRoundTrip ==
  (/\ FitReturned
   /\ Len(StepNames) = 1
   /\ StepNames[1] \in {"DifferencedTransformer", "CumSumTransformer",
                        "PctChangeTransformer", "MeanDifference",
                        "SeasonalDifference", "RollingMeanTransformer"}
   /\ NRows(last.arg) >= 2) =>
    LET back == InverseNow(last.df, "original")
    IN  back.ok /\ back.df = last.arg

\* the frame inverse_transform(transform(X)) of the instance fitted on X
PlainRoundTrip ==
  LET fwd == TransformNow(last.arg)
  IN  IF fwd.ok THEN InverseAfter(fwd, fwd.df, "forecast") ELSE fwd

InverseInputs(c) ==
  Futures(c) \cup {last.df}
  \cup { <<[j \in 1..c |-> R(1)], [j \in 1..c |-> NaN]>> }

\* C11: inverse_transform of DifferencedTransformer, PctChangeTransformer,
\* CumSumTransformer and MeanDifference, in either mode, never returns a
\* frame with a NaN in it: it raises instead.
C11_InverseNeverReturnsNaN ==
  (/\ FitReturned
   /\ Len(StepNames) = 1
   /\ StepNames[1] \in {"DifferencedTransformer", "PctChangeTransformer",
                        "CumSumTransformer", "MeanDifference"}) =>
    \A df \in InverseInputs(NCols(last.arg)),
       trans_method \in {"forecast", "original"} :
      InverseNow(df, trans_method).ok
        => ~HasNaN(InverseNow(df, trans_method).df)

\* ------------------------------------------------------------------------
\* SeasonalDifference(lag_1 = 7, method = 'LastValue') on frames that
\* repeat with period 7
\* ------------------------------------------------------------------------
MaxPhaseRows == 15

PhaseValues == {0, 2}

\* the frames of n rows and c columns whose cell at row t and column j is
\* set by j and t mod 7 alone
PhaseFrames ==
  { [t \in 1..n |-> [j \in 1..c |-> R(j * g[(t + j) % 7])]] :
      n \in 1..MaxPhaseRows, c \in 1..2, g \in [0..6 -> PhaseValues] }

Lag7 == [DefaultParams EXCEPT !.lag_1 = 7, !.method = "LastValue"]

InitSeasonal ==
  /\ transformations = ("A" :> (0 :> "SeasonalDifference"))
  /\ transformation_params = ("A" :> (0 :> Lag7))
  /\ transformers = ("A" :> <<>>)
  /\ trans_dict = trans_dict_init
  /\ last = NoCall
  /\ ToolsIdle

NextSeasonal ==
  /\ last.op = "none"
  /\ \E df \in PhaseFrames, ext \in ExternalOutcomes : GT_fit("A", df, ext)

SpecSeasonal == InitSeasonal /\ [][NextSeasonal]_vars

\* C12: SeasonalDifference(lag_1=7, method='LastValue') fitted with
\* fit_transform on a frame of any number of rows whose cells depend on the
\* column and on the row number modulo 7 only returns zero in every cell.
C12_PeriodicGivesZero ==
  (/\ last.op = "fit"
   /\ transformations["A"][0] = "SeasonalDifference"
   /\ transformation_params["A"][0].lag_1 = 7) =>
    /\ last.status = "returned"
    /\ NRows(last.df) = NRows(last.arg)
    /\ \A t \in 1..NRows(last.df), j \in 1..NCols(last.df) :
         last.df[t][j] = R(0)

\* a frame of more rows than the period, not a multiple of it, and not
\* constant, came back as zeros
C12_Witness ==
  /\ last.op = "fit"
  /\ transformation_params["A"][0].lag_1 = 7
  /\ NRows(last.arg) = 10
  /\ last.arg[1] # last.arg[2]
  /\ last.status = "returned"
  /\ \A t \in 1..10 : last.df[t] = <<R(0)>>

\* ------------------------------------------------------------------------
\* date_part on indexes of several steps, lengths and first stamps
\* ------------------------------------------------------------------------
\* the longest index, in years
MaxSpanYears == 12

\* first stamps: the first hour of 2000, of 2000-07-01 and of 2001-07-01,
\* and the last hour of 2000
FirstStamps == {0, 182 * 24, 366 * 24 - 1, (366 + 181) * 24}

\* an hour, a day, a week, a month and a year between stamps
StepHours == {1, 24, 168, 730, 8766}

SampleCounts ==
  {1, 2, 3, 4, 5, 20, 21, 40, 41, 83, 84, 166, 167, 250, 1000, 1001, 1826,
   2000, 2001, 8760}

Indexes ==
  { ix \in { DatetimeIndex(start, step, n) :
               start \in FirstStamps, step \in StepHours, n \in SampleCounts } :
      (ix.n - 1) * ix.step <= MaxSpanYears * 8766 }

PipelineIdle ==
  /\ transformations = <<>>
  /\ transformation_params = <<>>
  /\ transformers = <<>>
  /\ trans_dict = trans_dict_init
  /\ last = NoCall

\* the index and the method the caller is about to pass
InitDatePart ==
  /\ PipelineIdle
  /\ CallsIdle
  /\ na_probs = na_probs_init
  /\ df_interpolate = df_interpolate_init
  /\ drawn = NoDraw
  /\ sin_trend = NoSinTrend
  /\ anomaly_removal = NoAnomalyRemoval
  /\ \E DTindex \in Indexes, method \in {"common_fourier", "common_fourier_rw"} :
       date_part_call = [NoDatePart EXCEPT !.DTindex = DTindex,
                                           !.method = method]

DP_call ==
  /\ ~date_part_call.called
  /\ date_part_call' = date_part(date_part_call.DTindex, date_part_call.method)
  /\ UNCHANGED <<pipeline_vars, na_probs, df_interpolate, drawn, sin_trend,
                 anomaly_removal, call_vars>>

NextDatePart == DP_call

SpecDatePart == InitDatePart /\ [][NextDatePart]_vars

\* the units and periods of the harmonics in a seasonal_list
Periods(list) ==
  {<<list[k].unit, list[k].p100>> : k \in 1..Len(list)}
  \cup {<<list[k].unit, list[k].by_p100>> :
          k \in {m \in 1..Len(list) : list[m].by_p100 # 0}}

\* the periods of the band set the ratio years / count falls to
BandPeriods(years, count) ==
  IF 1000 * years < count
    THEN {<<"hours", 2400>>, <<"hours", 16800>>, <<"hours", 876600>>}
  ELSE IF 1000 * years < 12 * count
    THEN {<<"days", 700>>, <<"days", 36525>>}
  ELSE IF 100 * years < 5 * count
    THEN {<<"days", 2800>>, <<"days", 36525>>}
  ELSE IF 2 * years < count
    THEN {<<"days", 36525>>, <<"days", 146100>>}
  ELSE {<<"days", 146100>>}

MaxDepthArg == 6

\* lists of names with all, some and none of the names of the traditional
\* order
NamedLists ==
  {<<"ClipOutliers", "Detrend", "AlignLastValue">>,
   <<"ClipOutliers", "Slice">>,
   <<"Slice", "Round">>}

\* calls that draw a fill method and no transformer, under each tier
FillCalls ==
  {RandomTransformArgs(TransformerList(t[1], <<>>), 0, t[2], t[3], FALSE, 0,
                       TRUE, FALSE) :
     t \in {<<"all", "None", "None">>, <<"fast", "None", "None">>,
            <<"superfast", "None", "None">>, <<"all", "True", "None">>,
            <<"all", "False", "True">>, <<"fast", "False", "False">>}}

\* calls that draw transformers in the traditional order
TraditionalCalls ==
  {a \in {RandomTransformArgs(TransformerList("", names), d[2], "None",
                               "None", TRUE, d[1], allow_none, TRUE) :
            names \in NamedLists,
            d \in {<<1, 4>>, <<0, 2>>, <<MaxDepthArg - 1, MaxDepthArg>>},
            allow_none \in BOOLEAN} :
     Len(a.transformer_list.names) = 3 => a.transformer_min_depth = 1}

\* calls that draw transformers in any order, one with min above max
FreeCalls ==
  {RandomTransformArgs(TransformerList("superfast", <<>>), 1, "None", "None",
                       FALSE, 1, TRUE, TRUE),
   RandomTransformArgs(TransformerList("all", <<>>), 1, "None", "None",
                       FALSE, 1, TRUE, TRUE),
   RandomTransformArgs(TransformerList("", <<"Slice", "Round">>), 3, "None",
                       "None", FALSE, 0, TRUE, TRUE),
   RandomTransformArgs(TransformerList("", <<"Slice", "Round">>), 1, "None",
                       "None", FALSE, 2, TRUE, TRUE),
   RandomTransformArgs(TransformerList("", <<"Slice", "Round">>), 2, "False",
                       "False", FALSE, 1, TRUE, FALSE)}

RandomTransformCalls == FillCalls \cup TraditionalCalls \cup FreeCalls

InitRandomTransform ==
  /\ PipelineIdle
  /\ ToolsIdle

\* one call of RandomTransform: the pops on the module's catalogs, then the
\* draws from what is left
Drawn(args, na, interp) ==
  /\ na_probs' = na
  /\ df_interpolate' = interp
  /\ \E rnd \in Draws(args, na, interp) : drawn' = RandomTransform(args, rnd)
  /\ UNCHANGED <<pipeline_vars, sin_trend, anomaly_removal, date_part_call,
                 call_vars>>

RT_call ==
  \E args \in RandomTransformCalls :
    Drawn(args, NaProbsAfter(na_probs, args),
          InterpolateAfter(df_interpolate, args))

NextRandomTransform == RT_call

SpecRandomTransform == InitRandomTransform /\ [][NextRandomTransform]_vars

\* C14 (part): a returned draw has the same keys 0..k-1 in 'transformations'
\* and 'transformation_params'.
C14_SameKeys ==
  drawn.status = "returned" =>
    /\ DOMAIN drawn.transformations = DOMAIN drawn.transformation_params
    /\ \E k \in 0..MaxDepthArg : DOMAIN drawn.transformations = 0..(k - 1)

\* C14: for every choice of arguments, a call returns k steps keyed 0..k-1
\* in both dictionaries with transformer_min_depth <= k <=
\* transformer_max_depth.
C14_DepthWithinBounds ==
  drawn.called =>
    /\ drawn.status = "returned"
    /\ DOMAIN drawn.transformations = DOMAIN drawn.transformation_params
    /\ \E k \in drawn.args.transformer_min_depth
                 ..drawn.args.transformer_max_depth :
         DOMAIN drawn.transformations = 0..(k - 1)

\* C15 (part): a call on the fast tier never returns an iterative imputer,
\* a call on the superfast tier never returns the KNN imputer.
C15_TierExcludes ==
  drawn.status = "returned" =>
    /\ FastParams(drawn.args) =>
         drawn.fillna \notin {"IterativeImputer", "IterativeImputerExtraTrees"}
    /\ SuperfastParams(drawn.args) => drawn.fillna # "KNNImputer"

\* C15: the tiers exclude their slow fill methods, and a call under neither
\* tier can still return each of them.
C15_SlowRemainPossible ==
  /\ C15_TierExcludes
  /\ {"IterativeImputer", "IterativeImputerExtraTrees", "KNNImputer"}
       \subseteq Weighted(na_probs)

C20_CatalogsUnchanged ==
  /\ na_probs = na_probs_init
  /\ df_interpolate = df_interpolate_init

\* ------------------------------------------------------------------------
\* SinTrend.fit on frames around ParallelMinCols columns
\* ------------------------------------------------------------------------
JobCounts == {-1, 0, 1, 2, 4}

ColumnCounts == {1, 2, ParallelMinCols - 1, ParallelMinCols, ParallelMinCols + 1}

InitSinTrend ==
  /\ PipelineIdle
  /\ CallsIdle
  /\ na_probs = na_probs_init
  /\ df_interpolate = df_interpolate_init
  /\ drawn = NoDraw
  /\ anomaly_removal = NoAnomalyRemoval
  /\ date_part_call = NoDatePart
  /\ \E n_jobs \in JobCounts, n \in ColumnCounts :
       sin_trend = SinTrend_init(n_jobs, [k \in 1..n |-> k])

SinTrendStep(self) ==
  /\ sin_trend' = self
  /\ UNCHANGED <<pipeline_vars, na_probs, df_interpolate, drawn,
                 anomaly_removal, date_part_call, call_vars>>

ST_fit_enter ==
  /\ sin_trend.pc = "idle"
  /\ SinTrendStep(SinTrend_fit_enter(sin_trend))

ST_fit_col ==
  /\ sin_trend.pc = "loop"
  /\ Len(sin_trend.df_list) < Len(sin_trend.cols)
  /\ SinTrendStep(SinTrend_fit_col(sin_trend))

ST_fit_return ==
  /\ sin_trend.pc = "loop"
  /\ Len(sin_trend.df_list) = Len(sin_trend.cols)
  /\ SinTrendStep(SinTrend_fit_return(sin_trend))

NextSinTrend == ST_fit_enter \/ ST_fit_col \/ ST_fit_return

SpecSinTrend == InitSinTrend /\ [][NextSinTrend]_vars

\* C17 (part): with n_jobs in {0, 1} or fewer than ParallelMinCols columns
\* fit goes through the columns one after the other, and ends with row i
\* fitted to column i.
C17_SequentialFit ==
  (sin_trend.made
     /\ (sin_trend.n_jobs \in {0, 1} \/ Len(sin_trend.cols) < ParallelMinCols)) =>
    /\ sin_trend.pc # "raised"
    /\ \A i \in 1..Len(sin_trend.df_list) :
         sin_trend.df_list[i] = fit_sin(sin_trend.cols[i])
    /\ sin_trend.pc = "returned" =>
         /\ Len(sin_trend.sin_params) = Len(sin_trend.cols)
         /\ sin_trend.sin_params = sin_trend.df_list

\* C17: fit with n_jobs > 1 and at least ParallelMinCols columns hands out
\* one task per column and completes with one row per column, row i fitted
\* to column i.
C17_ParallelFitCompletes ==
  (sin_trend.made /\ sin_trend.n_jobs > 1
     /\ Len(sin_trend.cols) >= ParallelMinCols /\ sin_trend.pc # "idle") =>
    /\ sin_trend.pc # "raised"
    /\ sin_trend.pc = "returned" =>
         /\ Len(sin_trend.sin_params) = Len(sin_trend.cols)
         /\ \A i \in 1..Len(sin_trend.cols) :
              sin_trend.sin_params[i] = fit_sin(sin_trend.cols[i])

\* ------------------------------------------------------------------------
\* One AnomalyRemoval object, fitted and asked for labels in any order
\* ------------------------------------------------------------------------
MaxFits == 4

AnomalyFrames == {"df1", "df2", "df3"}

InitAnomalyRemoval ==
  /\ PipelineIdle
  /\ CallsIdle
  /\ na_probs = na_probs_init
  /\ df_interpolate = df_interpolate_init
  /\ drawn = NoDraw
  /\ sin_trend = NoSinTrend
  /\ date_part_call = NoDatePart
  /\ anomaly_removal = AnomalyRemoval_init

AnomalyRemovalStep(self) ==
  /\ anomaly_removal' = self
  /\ UNCHANGED <<pipeline_vars, na_probs, df_interpolate, drawn, sin_trend,
                 date_part_call, call_vars>>

AR_fit ==
  /\ anomaly_removal.fits < MaxFits
  /\ \E df \in AnomalyFrames :
       AnomalyRemovalStep(AnomalyRemoval_fit(anomaly_removal, df))

AR_score_to_anomaly ==
  AnomalyRemovalStep(score_to_anomaly(anomaly_removal))

NextAnomalyRemoval == AR_fit \/ AR_score_to_anomaly

SpecAnomalyRemoval == InitAnomalyRemoval /\ [][NextAnomalyRemoval]_vars

\* C18 (part): fit trains no classifier on the first fit of an object, the
\* classifier is trained by the first score_to_anomaly.
C18_FirstFitTrainsNothing ==
  (anomaly_removal.fits = 1 /\ anomaly_removal.op = "fit") =>
    anomaly_removal.anomaly_classifier = "None"

\* C18: score_to_anomaly labels the scores with a classifier trained on the
\* anomalies and scores of the most recent fit.
C18_ClassifierOfLastFit ==
  (anomaly_removal.op = "score_to_anomaly"
     /\ anomaly_removal.status = "returned") =>
    /\ anomaly_removal.res = anomaly_removal.detected
    /\ anomaly_removal.res.fit = anomaly_removal.fits

\* ------------------------------------------------------------------------
\* The labels GeneralTransformer tracks through its loops
\* ------------------------------------------------------------------------
\* pipelines with a step that returns an array, before and after the steps
\* that change the number of rows or columns
TrackedPipelines ==
  { (0 :> Step("Slice", [DefaultParams EXCEPT !.slice = [form |-> "int", n |-> 2]])
     @@ 1 :> Step("MinMaxScaler", DefaultParams)),
    (0 :> Step("MinMaxScaler", DefaultParams)
     @@ 1 :> Step("PCA", DefaultParams)),
    (0 :> Step("PCA", DefaultParams)
     @@ 2 :> Step("MinMaxScaler", DefaultParams)),
    (0 :> Step("MinMaxScaler", DefaultParams)
     @@ 1 :> Step("Slice", [DefaultParams EXCEPT !.slice = [form |-> "int", n |-> 1]])
     @@ 2 :> Step("MinMaxScaler", DefaultParams)),
    (0 :> Step("FastICA", DefaultParams)
     @@ 1 :> Step("MinMaxScaler", DefaultParams)),
    (0 :> Step("DifferencedTransformer", DefaultParams)
     @@ 1 :> Step("MinMaxScaler", DefaultParams)) }

\* the frames of the history (the last with more series than dates) and
\* the frames of a forecast
HistoryFrames ==
  { IntFrame(<< <<2>>, <<0>>, <<5>> >>),
    IntFrame(<< <<1, 4>>, <<2, 0>> >>),
    IntFrame(<< <<0, 1>>, <<3, 3>>, <<-1, 2>> >>),
    IntFrame(<< <<1, 4, 2>>, <<2, 0, 2>> >>) }

ForecastFrames ==
  { IntFrame(<< <<3>> >>),
    IntFrame(<< <<1, 2>> >>),
    IntFrame(<< <<0, 1>>, <<2, 2>>, <<1, 1>> >>),
    IntFrame(<< <<1, 0, 2>> >>) }

InitTracked ==
  /\ \E c \in TrackedPipelines :
       /\ transformations = ("A" :> [k \in DOMAIN c |-> c[k].name])
       /\ transformation_params = ("A" :> [k \in DOMAIN c |-> c[k].p])
  /\ transformers = ("A" :> <<>>)
  /\ trans_dict = trans_dict_init
  /\ last = NoCall
  /\ ToolsIdle

\* the caller fits the instance on the history, then transforms a frame of
\* the same series or takes back what fit returned or a forecast of its
\* series
NextTracked ==
  \/ /\ last.op = "none"
     /\ \E df \in HistoryFrames, ext \in ExternalOutcomes : GT_fit("A", df, ext)
  \/ /\ last.op = "fit" /\ last.status = "returned"
     /\ \E df \in {x \in HistoryFrames : NCols(x) = NCols(last.arg)} :
          GT_transform("A", df)
  \/ /\ last.op = "fit" /\ last.status = "returned"
     /\ \E df \in {last.df} \cup {x \in ForecastFrames : NCols(x) = NCols(last.df)},
           trans_method \in {"forecast", "original"} :
          GT_inverse_transform("A", df, trans_method, FALSE, "False")

SpecTracked == InitTracked /\ [][NextTracked]_vars

MaxHistoryRows == 3

RollingWindows == {2, 3}

\* NaN-free histories of one series, the shortest of one row
Histories ==
  UNION { { [t \in 1..n |-> <<R(f[t])>>] : f \in [1..n -> CellValues] } :
          n \in 1..MaxHistoryRows }

InitRolling ==
  /\ \E w \in RollingWindows, fixed \in BOOLEAN :
       /\ transformations = ("A" :> (0 :> "RollingMeanTransformer"))
       /\ transformation_params =
            ("A" :> (0 :> [DefaultParams EXCEPT !.window = w, !.fixed = fixed]))
  /\ transformers = ("A" :> <<>>)
  /\ trans_dict = trans_dict_init
  /\ last = NoCall
  /\ ToolsIdle

\* the caller fits the instance on the history and inverts a forecast
NextRolling ==
  \/ /\ last.op = "none"
     /\ \E df \in Histories, ext \in {CHOOSE e \in ExternalOutcomes : ~e.sk_raises} :
          GT_fit("A", df, ext)
  \/ /\ last.op = "fit" /\ last.status = "returned"
     /\ \E df \in Futures(1) :
          GT_inverse_transform("A", df, "forecast", FALSE, "False")

SpecRolling == InitRolling /\ [][NextRolling]_vars

\* the sum of the k values that precede position t of a column (of fewer
\* when fewer precede it)
SumBefore(c, t, k) == SumSkipNa(SubSeq(c, Max(1, t - k), t - 1))

\* the history the step of instance A was fitted on, as a column
FittedHistory == Col(Deref(transformers["A"][0], trans_dict).src, 1)

\* C21 (part): with fixed=True inverse_transform returns its input.
C21_FixedReturnsInput ==
  (last.op = "inverse_transform" /\ transformation_params["A"][0].fixed) =>
    /\ last.status = "returned"
    /\ last.df = last.arg

\* C21: with fixed=False, for every history length >= 1, each value
\* rebuilt by inverse_transform in forecast mode is rolling[t] * window
\* minus the sum of the window - 1 values before t, of the history or
\* rebuilt earlier.
C21_RebuildsFromWindow ==
  (last.op = "inverse_transform" /\ ~transformation_params["A"][0].fixed) =>
    /\ last.status = "returned"
    /\ Len(last.df) = Len(last.arg)
    /\ \A t \in 1..Len(last.df) :
         last.df[t][1] =
           RSub(RMul(last.arg[t][1], R(transformation_params["A"][0].window)),
                SumBefore(FittedHistory \o Col(last.df, 1),
                          Len(FittedHistory) + t,
                          transformation_params["A"][0].window - 1))

\* C21 (part): the same for the histories of at least window rows.
C21_RebuildsFromFullWindow ==
  (last.op = "inverse_transform"
     /\ Len(FittedHistory) >= transformation_params["A"][0].window) =>
    C21_RebuildsFromWindow

\* ------------------------------------------------------------------------
\* Slice with each kind of method
\* ------------------------------------------------------------------------
MaxSliceArg == 4

\* the methods of the docstring, with forecast_length 1 and 2
SliceMethods ==
  {SliceMethod("None", 0, <<0, 1>>, <<>>, 1), SliceMethod("HalfMax", 0, <<0, 1>>, <<>>, 1)}
  \cup {SliceMethod("int", n, <<0, 1>>, <<>>, 1) : n \in 1..MaxSliceArg}
  \cup {SliceMethod("neg", n, <<0, 1>>, <<>>, 1) : n \in 1..MaxSliceArg}
  \cup {SliceMethod("frac", 0, f, <<>>, 1) : f \in {<<1, 2>>, <<1, 5>>, <<4, 5>>}}
  \cup {SliceMethod("forecastlength", 0, <<0, 1>>, d, fl) :
          d \in {<<>>, <<2>>, <<4>>, <<6>>, <<8>>, <<1, 0>>}, fl \in {1, 2}}

InitSlice ==
  /\ \E m \in SliceMethods :
       /\ transformations = ("A" :> (0 :> "Slice"))
       /\ transformation_params = ("A" :> (0 :> [DefaultParams EXCEPT !.slice = m]))
  /\ transformers = ("A" :> <<>>)
  /\ trans_dict = trans_dict_init
  /\ last = NoCall
  /\ ToolsIdle

\* the instance is fitted on a frame: Slice.fit_transform slices it
NextSlice ==
  /\ last.op = "none"
  /\ \E df \in Histories, ext \in {CHOOSE e \in ExternalOutcomes : ~e.sk_raises} :
       GT_fit("A", df, ext)

SpecSlice == InitSlice /\ [][NextSlice]_vars

\* the number of rows the docstring gives for a method on a frame of len
\* rows
DocumentedRows(m, len) ==
  CASE m.form = "None" -> len
    [] m.form = "int" -> Min(m.n, len)
    [] m.form = "neg" -> Max(len - m.n, 0)
    [] m.form = "frac" -> (len * m.frac[1]) \div m.frac[2]
    [] m.form = "HalfMax" -> len \div 2
    [] m.form = "forecastlength" ->
         Min(len, m.forecast_length
                    * (IF m.digits = <<>> THEN 1 ELSE AllDigits(m.digits)))

\* C22: the slicer returns the most recent k rows, k as documented for
\* the method.
C22_DocumentedRows ==
  last.op = "fit" =>
    /\ last.status = "returned"
    /\ last.df = SubSeq(last.arg,
                        Len(last.arg)
                          - DocumentedRows(transformation_params["A"][0].slice,
                                           Len(last.arg)) + 1,
                        Len(last.arg))

\* C22 (part): the same for None, an integer n >= 1, a fraction, HalfMax,
\* '-n' below the length and 'mForecastLength' of one digit.
C22_DocumentedRowsOfPlainMethods ==
  (/\ ~(transformation_params["A"][0].slice.form = "forecastlength"
          /\ Len(transformation_params["A"][0].slice.digits) # 1)
   /\ ~(transformation_params["A"][0].slice.form = "neg"
          /\ transformation_params["A"][0].slice.n > Len(last.arg))) =>
    C22_DocumentedRows

\* ------------------------------------------------------------------------
\* LocalLinearTrend used on its own: fit_transform on a history with one
\* row a day, transform of a frame with dates inside, before or after the
\* fit dates, and inverse_transform of what transform returned
\* ------------------------------------------------------------------------
TrendWindows == {R(1), R(2), R(3), Norm(1, 2)}

TrendFutures == {R(1), Norm(1, 4), Norm(1, 2)}

\* what window_lin_reg_mean may return for n dates: it raises, or it
\* returns one slope and one intercept a date (_fit multiplies its slope
\* with dates_2d row by row)
RegOutcomes(n) ==
  {[raises |-> TRUE, slope |-> <<>>, intercept |-> <<>>]}
    \cup {[raises |-> FALSE, slope |-> [t \in 1..n |-> R(a * t)],
           intercept |-> [t \in 1..n |-> R(1 - t)]] : a \in {1, 2}}

DayIndex(n) == [t \in 1..n |-> R(9 + t)]

DatedHistories == {Dated(DayIndex(Len(df)), Col(df, 1)) : df \in Histories}

\* dates a later frame may carry: far and near before the first fit date,
\* the fit dates, between them, near and far after the last
ProbeDates(dates) ==
  {dates[t] : t \in 1..Len(dates)}
    \cup {RSub(dates[1], R(2)), RSub(dates[1], Norm(1, 200)),
          RAdd(dates[1], Norm(1, 2)),
          RAdd(dates[Len(dates)], Norm(1, 200)),
          RAdd(dates[Len(dates)], R(2))}

TrendFrames(self) ==
  {self.X} \cup {Dated(<<d>>, <<R(2)>>) : d \in ProbeDates(self.dates)}

InitLocalLinearTrend ==
  /\ PipelineIdle
  /\ na_probs = na_probs_init
  /\ df_interpolate = df_interpolate_init
  /\ drawn = NoDraw
  /\ sin_trend = NoSinTrend
  /\ anomaly_removal = NoAnomalyRemoval
  /\ date_part_call = NoDatePart
  /\ seasonal_int_call = NoSeasonalInt
  /\ direct = NoDirect
  /\ \E w \in TrendWindows, k \in TrendFutures, m \in {"mean", "median"} :
       local_linear_trend = LocalLinearTrend_init(w, k, m)

LocalLinearTrendStep(self) ==
  /\ local_linear_trend' = self
  /\ UNCHANGED <<pipeline_vars, tool_vars, seasonal_int_call, direct>>

LLT_fit_transform ==
  /\ local_linear_trend.op = "none"
  /\ \E X \in DatedHistories :
       \E reg \in RegOutcomes(Len(X.index)) :
         LocalLinearTrendStep(
           LocalLinearTrend_fit_transform(local_linear_trend, X, reg))

LLT_transform ==
  /\ local_linear_trend.op = "fit_transform"
  /\ local_linear_trend.ok
  /\ \E X \in TrendFrames(local_linear_trend) :
       LocalLinearTrendStep(LocalLinearTrend_transform(local_linear_trend, X))

\* the frame transform returned goes back through inverse_transform
LLT_inverse_transform ==
  /\ local_linear_trend.op = "transform"
  /\ local_linear_trend.ok
  /\ LocalLinearTrendStep(
       [LocalLinearTrend_inverse_transform(
          local_linear_trend,
          Dated(local_linear_trend.X.index, local_linear_trend.out))
        EXCEPT !.of = local_linear_trend.X])

NextLocalLinearTrend ==
  LLT_fit_transform \/ LLT_transform \/ LLT_inverse_transform

SpecLocalLinearTrend ==
  InitLocalLinearTrend /\ [][NextLocalLinearTrend]_vars

LookedUp == local_linear_trend.op \in {"transform", "inverse_transform"}

\* C23 (part): after a fit, the index looked up for every date of a frame
\* is within the padded slope and intercept arrays, a date of the fit uses
\* the rolling slope and intercept of its own row, so that transform of the
\* fit frame returns what fit_transform returned, and a date after the
\* last fit date uses the tail statistic.
C23_LookupInBounds ==
  LookedUp =>
    LET self == local_linear_trend
        n == Len(self.dates)
    IN  /\ self.ok
        /\ Len(self.full_slope) = n + 3
        /\ \A t \in 1..Len(self.idx) :
             /\ self.idx[t] + 1 \in 1..Len(self.full_slope)
             /\ \A i \in 1..n :
                  self.X.index[t] = self.dates[i] =>
                    /\ self.idx[t] = i
                    /\ self.full_slope[self.idx[t] + 1] = self.slope[i]
                    /\ self.full_intercept[self.idx[t] + 1] = self.intercept[i]
             /\ RLt(self.dates[n], self.X.index[t]) => self.idx[t] > n
        /\ (self.op = "transform" /\ self.X.index = self.dates) =>
             (self.out = ColSub(self.X.values,
                                TrendLine(self.slope, self.dates, self.intercept)))

\* C23 (part): a date before the first fit date uses the head statistic.
C23_BeforeUsesHead ==
  LookedUp =>
    \A t \in 1..Len(local_linear_trend.idx) :
      RLt(local_linear_trend.X.index[t], local_linear_trend.dates[1]) =>
        local_linear_trend.idx[t] = 0

\* C23: inverse_transform of what transform returned for a frame is that
\* frame, whatever its dates.
C23_InverseOfTransform ==
  local_linear_trend.op = "inverse_transform" =>
    /\ local_linear_trend.ok
    /\ local_linear_trend.out = local_linear_trend.of.values

\* ------------------------------------------------------------------------
\* AlignLastValue fitted on a history, then given a forecast
\* ------------------------------------------------------------------------
AlignArgs ==
  {[DefaultParams EXCEPT !.rows = rows, !.lag = lag, !.strength = s,
                         !.first_value_only = f] :
     rows \in {1, 2}, lag \in {1, 2}, s \in {R(1), Norm(1, 2)}, f \in BOOLEAN}

InitAlign ==
  /\ \E p \in AlignArgs :
       /\ transformations = ("A" :> (0 :> "AlignLastValue"))
       /\ transformation_params = ("A" :> (0 :> p))
  /\ transformers = ("A" :> <<>>)
  /\ trans_dict = trans_dict_init
  /\ last = NoCall
  /\ ToolsIdle

NextAlign ==
  \/ /\ last.op = "none"
     /\ \E df \in Histories, ext \in {CHOOSE e \in ExternalOutcomes : ~e.sk_raises} :
          GT_fit("A", df, ext)
  \/ /\ last.op = "fit" /\ last.status = "returned"
     /\ \E df \in Futures(1) : GT_transform("A", df)
  \/ /\ last.op = "fit" /\ last.status = "returned"
     /\ \E df \in Futures(1), trans_method \in {"forecast", "original"} :
          GT_inverse_transform("A", df, trans_method, FALSE, "False")

SpecAlign == InitAlign /\ [][NextAlign]_vars

\* the mean of the rows values of column c that end lag values back from
\* its end (lag = 1: at its last value), of those of them the column has
CenterOf(c, rows, lag) ==
  MeanSkipNa(SubSeq(c, Max(1, Len(c) - lag - Max(rows, 1) + 2), Len(c) - lag + 1))

AlignedTo(center) ==
  \A t \in 1..Len(last.df) :
    last.df[t][1] =
      IF transformation_params["A"][0].first_value_only /\ t > 1
      THEN last.arg[t][1]
      ELSE RAdd(last.arg[t][1],
                RMul(transformation_params["A"][0].strength,
                     RSub(center, last.arg[1][1])))

\* C24: transform returns its input; inverse_transform in 'original' mode
\* returns its input; in forecast mode with bounds=False and the additive
\* method it adds strength * (center - first input row) to every row, to
\* the first row only with first_value_only, center being the mean of the
\* 'rows' values of the fit frame that end 'lag' rows back from its end;
\* with strength 1 the first output row is center.
C24_AlignsToCenter ==
  /\ last.op = "transform" => (last.status = "returned" /\ last.df = last.arg)
  /\ (last.op = "inverse_transform" /\ last.trans_method = "original") =>
       (last.status = "returned" /\ last.df = last.arg)
  /\ (last.op = "inverse_transform" /\ last.trans_method = "forecast") =>
       /\ last.status = "returned"
       /\ Len(last.df) = Len(last.arg)
       /\ AlignedTo(CenterOf(FittedHistory, transformation_params["A"][0].rows,
                             transformation_params["A"][0].lag))
       /\ transformation_params["A"][0].strength = R(1) =>
            last.df[1][1] = CenterOf(FittedHistory,
                                     transformation_params["A"][0].rows,
                                     transformation_params["A"][0].lag)

\* a forecast of two rows aligned at half strength to the mean of the
\* first two of three fitted rows, which is not the last fitted value
C24_Witness ==
  /\ last.op = "inverse_transform" /\ last.trans_method = "forecast"
  /\ last.status = "returned"
  /\ transformation_params["A"][0].rows = 2
  /\ transformation_params["A"][0].lag = 2
  /\ transformation_params["A"][0].strength = Norm(1, 2)
  /\ ~transformation_params["A"][0].first_value_only
  /\ FittedHistory = <<R(2), R(0), R(-1)>>
  /\ last.arg = <<<<R(0)>>, <<R(2)>>>>
  /\ last.df = <<<<Norm(1, 2)>>, <<Norm(5, 2)>>>>

\* ------------------------------------------------------------------------
\* PositiveShift with every combination of its flags: fit_transform of a
\* history, then inverse_transform of what it returned
\* ------------------------------------------------------------------------
ShiftArgs ==
  {[DefaultParams EXCEPT !.log = log, !.center_one = one, !.squared = sq] :
     log \in BOOLEAN, one \in BOOLEAN, sq \in BOOLEAN}

InitPositiveShift ==
  /\ PipelineIdle
  /\ ToolsIdleOnly
  /\ local_linear_trend = NoLocalLinearTrend
  /\ seasonal_int_call = NoSeasonalInt
  /\ \E p \in ShiftArgs : direct = DirectNew("PositiveShift", p)

DirectStep(self) ==
  /\ direct' = self
  /\ UNCHANGED <<pipeline_vars, tool_vars, local_linear_trend, seasonal_int_call>>

NoExternal == CHOOSE e \in ExternalOutcomes : ~e.sk_raises /\ ~e.holiday

PS_fit_transform ==
  /\ direct.op = "none"
  /\ \E df \in Histories :
       DirectStep(DirectCall(direct, "fit_transform", df,
                             StepFitTransform(direct.st, df, NoExternal)))

\* the frame fit_transform returned goes back through inverse_transform
PS_inverse_transform ==
  /\ direct.op = "fit_transform"
  /\ direct.ok
  /\ DirectStep(DirectCall(direct, "inverse_transform", direct.out,
                           StepInverse(direct.st, direct.out, "unset", "unset")))

NextPositiveShift == PS_fit_transform \/ PS_inverse_transform

SpecPositiveShift == InitPositiveShift /\ [][NextPositiveShift]_vars

\* the frame the step of instance A was fitted on
FittedFrame == Deref(transformers["A"][0], trans_dict).src

\* x >= 0 and x >= 1 of a value, a logarithm kept by its argument included
\* (log(a) >= 0 iff a >= 1; log(a) >= 1 iff a >= e, and 2718/1000 < e <
\* 2719/1000 with no value of the model in between)
AtLeastZero(x) ==
  IF Len(x) = 3 THEN RLe(R(1), <<x[1], x[2]>>) ELSE RLe(R(0), x)

AtLeastOne(x) ==
  IF Len(x) = 3 THEN RLe(Norm(2719, 1000), <<x[1], x[2]>>) ELSE RLe(R(1), x)

EveryCell(P(_), df) == \A t \in 1..Len(df) : \A j \in 1..Len(df[t]) : P(df[t][j])

ShiftFlags == direct.st.p

\* the bound the shift is made for: 1 with center_one or log, else 0
ShiftBound == IF ShiftFlags.log \/ ShiftFlags.center_one THEN R(1) ELSE R(0)

\* C25 (as stated): after fit_transform every output value is non-negative,
\* and at least 1 when center_one or log is set.
C25_OutputAtLeastBound ==
  (direct.op = "fit_transform" /\ direct.ok) =>
    /\ EveryCell(AtLeastZero, direct.out)
    /\ (ShiftFlags.log \/ ShiftFlags.center_one) => EveryCell(AtLeastOne, direct.out)

\* C25 (amended): after fit_transform every output value is non-negative,
\* and at least 1 when center_one is set and log is not (with log the
\* shifted values are at least 1 and the output is their logarithm); a
\* column whose minimum already meets the bound of the shift is not
\* shifted; and inverse_transform of what fit_transform returned is the
\* frame that went in, for every combination of log, center_one, squared.
C25_ShiftsAndInverts ==
  /\ (direct.op = "fit_transform" /\ direct.ok) =>
       /\ EveryCell(AtLeastZero, direct.out)
       /\ (ShiftFlags.center_one /\ ~ShiftFlags.log) =>
            EveryCell(AtLeastOne, direct.out)
       /\ \A j \in 1..NCols(direct.arg) :
            RLe(ShiftBound, MinSkipNa(Col(direct.arg, j))) =>
              direct.st.shift_amount[j] = R(0)
  /\ direct.op = "inverse_transform" =>
       /\ direct.ok
       /\ direct.out = direct.X

\* a history with a negative value went through shift, square and log and
\* came back
C25_Witness ==
  /\ direct.op = "inverse_transform" /\ direct.ok
  /\ ShiftFlags.log /\ ShiftFlags.squared /\ ~ShiftFlags.center_one
  /\ direct.X = <<<<R(-1)>>, <<R(2)>>, <<R(0)>>>>
  /\ direct.arg = <<<<R(0)>>, <<<<16, 1, 1>>>>, <<<<4, 1, 1>>>>>>
  /\ direct.out = direct.X

\* ------------------------------------------------------------------------
\* date_part called with each method name
\* ------------------------------------------------------------------------
date_part_methods ==
  {"recurring", "simple", "expanded", "simple_2", "simple_3", "lunar_phase",
   "simple_binarized", "simple_binarized_poly", "expanded_binarized",
   "common_fourier", "common_fourier_rw"}

ShortIndexes == {ix \in Indexes : ix.n <= 5 /\ ix.step \in {24, 730}}

InitDatePartMethods ==
  /\ PipelineIdle
  /\ na_probs = na_probs_init
  /\ df_interpolate = df_interpolate_init
  /\ drawn = NoDraw
  /\ sin_trend = NoSinTrend
  /\ anomaly_removal = NoAnomalyRemoval
  /\ CallsIdle
  /\ \E DTindex \in ShortIndexes, method \in date_part_methods :
       date_part_call = [NoDatePart EXCEPT !.DTindex = DTindex,
                                           !.method = method]

SpecDatePartMethods == InitDatePartMethods /\ [][NextDatePart]_vars

\* the feature set the docstring and the branch of each method name give
FeatureSet(method) ==
  CASE method = "recurring" ->
         <<"month", "day", "weekday", "weekend", "hour", "quarter", "midyear">>
    [] method = "simple" -> SimpleColumns
    [] method = "expanded" -> SimpleColumns \o ExpandedColumns
    [] method = "simple_2" -> <<"month", "day", "weekday", "weekend", "epoch">>
    [] method = "simple_3" ->
         <<"weekend", "quarter", "epoch", "month_1..12", "weekday_0..6">>
    [] method = "lunar_phase" ->
         <<"weekend", "quarter", "epoch", "month_1..12", "weekday_0..6", "phase">>
    [] method \in {"simple_binarized", "simple_binarized_poly"} ->
         <<"day", "weekend", "epoch", "month_1..12", "weekday_0..6">>
    [] method = "expanded_binarized" ->
         <<"weekend", "quarter", "epoch", "month_1..12", "weekday_0..6",
           "day_1..31", "weekdayofmonth_1..5">>
    [] method = "common_fourier" -> <<"seasonalitycommonfourier_0..">>
    [] method = "common_fourier_rw" -> <<"seasonalitycommonfourier_0..", "epoch">>

\* C26: date_part builds the feature set of the method named, and for
\* 'expanded' the four simple fields followed by the extended calendar
\* fields, not the set of another method.
C26_FeatureSetOfMethod ==
  date_part_call.called =>
    /\ date_part_call.columns = FeatureSet(date_part_call.method)
    /\ \A other \in date_part_methods \ {date_part_call.method, "simple_binarized",
                                         "simple_binarized_poly"} :
         date_part_call.columns # FeatureSet(other)

\* C26 (part): the same for every method name but 'expanded'.
C26_FeatureSetOfOtherMethods ==
  (date_part_call.called /\ date_part_call.method # "expanded") =>
    C26_FeatureSetOfMethod

\* ------------------------------------------------------------------------
\* seasonal_int called with each combination of its arguments
\* ------------------------------------------------------------------------
\* activations of one call the model follows; a draw that would need one
\* more is left out at this depth
MaxCallDepth == 3

\* values of random.randint(2, 100) the model draws
RandintValues == {2, 29, 30, 31, 100}

InitSeasonalInt ==
  /\ PipelineIdle
  /\ ToolsIdleOnly
  /\ local_linear_trend = NoLocalLinearTrend
  /\ direct = NoDirect
  /\ \E include_one \in BOOLEAN, small \in BOOLEAN, very_small \in BOOLEAN :
       seasonal_int_call = seasonal_int_enter(include_one, small, very_small)

SeasonalIntStep(call) ==
  /\ seasonal_int_call' = call
  /\ UNCHANGED <<pipeline_vars, tool_vars, local_linear_trend, direct>>

Running(pcs) ==
  /\ seasonal_int_call.stack # <<>>
  /\ Innermost(seasonal_int_call).pc \in pcs

\* the draw leads to no further call when the depth is used up
WithinDepth(call) ==
  Len(call.stack) < MaxCallDepth
    \/ /\ ~seasonal_int_calls(Innermost(call))
       /\ ~seasonal_int_calls(Innermost(seasonal_int_step(call)))
       /\ ~seasonal_int_calls(Innermost(seasonal_int_step(seasonal_int_step(call))))

SI_choices ==
  /\ Running({"choices"})
  /\ \E lag \in prob_dict :
       /\ WithinDepth(seasonal_int_choices(seasonal_int_call, lag))
       /\ SeasonalIntStep(seasonal_int_choices(seasonal_int_call, lag))

SI_randint ==
  /\ Running({"randint"})
  /\ \E lag \in RandintValues :
       /\ WithinDepth(seasonal_int_randint(seasonal_int_call, lag))
       /\ SeasonalIntStep(seasonal_int_randint(seasonal_int_call, lag))

SI_call_again ==
  /\ Running({"include_one", "very_small"})
  /\ seasonal_int_calls(Innermost(seasonal_int_call))
  /\ Len(seasonal_int_call.stack) < MaxCallDepth
  /\ SeasonalIntStep(seasonal_int_call_again(seasonal_int_call))

SI_step ==
  /\ Running({"include_one", "small"})
  /\ ~seasonal_int_calls(Innermost(seasonal_int_call))
  /\ SeasonalIntStep(seasonal_int_step(seasonal_int_call))

SI_return ==
  /\ Running({"very_small"})
  /\ ~seasonal_int_calls(Innermost(seasonal_int_call))
  /\ SeasonalIntStep(seasonal_int_return(seasonal_int_call))

NextSeasonalInt ==
  SI_choices \/ SI_randint \/ SI_call_again \/ SI_step \/ SI_return

SpecSeasonalInt == InitSeasonalInt /\ [][NextSeasonalInt]_vars

\* the draws are fair: a step that stays possible is taken
FairSpecSeasonalInt == SpecSeasonalInt /\ WF_vars(NextSeasonalInt)

\* C27: what seasonal_int returns is a positive integer, a period of the
\* catalog or a value from 2..100; it is not 1 without include_one, it is
\* below 364 with small and below 30 with very_small.
C27_ResultWithinLimits ==
  seasonal_int_call.returned =>
    /\ seasonal_int_call.result > 0
    /\ seasonal_int_call.result \in (prob_dict \ {-1}) \cup 2..100
    /\ ~seasonal_int_call.include_one => seasonal_int_call.result # 1
    /\ seasonal_int_call.small => seasonal_int_call.result < 364
    /\ seasonal_int_call.very_small => seasonal_int_call.result < 30

\* C27 (part): the same with the limits themselves allowed: at most 364
\* with small, at most 30 with very_small.
C27_ResultUpToLimits ==
  seasonal_int_call.returned =>
    /\ seasonal_int_call.result > 0
    /\ seasonal_int_call.result \in (prob_dict \ {-1}) \cup 2..100
    /\ ~seasonal_int_call.include_one => seasonal_int_call.result # 1
    /\ seasonal_int_call.small => seasonal_int_call.result <= 364
    /\ seasonal_int_call.very_small => seasonal_int_call.result <= 30

\* C27 (part): under fair draws every call returns.
C27_EventuallyReturns == <>(seasonal_int_call.returned)

\* ---------------------------------------------------------------------
\* fit, transform and fit_transform called on one transformer object
\* ---------------------------------------------------------------------
MaxBins == 2

FitVariants ==
  {<<cls, DefaultParams>> :
     cls \in {"EmptyTransformer", "DifferencedTransformer", "CumSumTransformer",
              "PctChangeTransformer", "MeanDifference", "CenterLastValue",
              "PositiveShift", "Round", "ClipOutliers", "AlignLastValue",
              "HolidayTransformer"}}
  \cup {<<"SeasonalDifference", Lag2>>,
        <<"RollingMeanTransformer", [DefaultParams EXCEPT !.window = 2]>>,
        <<"Slice", [DefaultParams EXCEPT !.slice = [form |-> "int", n |-> 2]]>>,
        <<"HolidayTransformer", [DefaultParams EXCEPT !.impact = "median_value"]>>}
  \cup {<<"Discretize", [DefaultParams EXCEPT !.discretization = d, !.n_bins = n]>> :
          d \in {"None", "center", "lower", "upper"}, n \in 1..MaxBins}

InitFit ==
  /\ PipelineIdle
  /\ ToolsIdleOnly
  /\ local_linear_trend = NoLocalLinearTrend
  /\ seasonal_int_call = NoSeasonalInt
  /\ \E v \in FitVariants : \E e \in ExternalOutcomes :
       direct = [DirectNew(v[1], v[2]) EXCEPT !.ext = e]

F_fit ==
  /\ direct.op = "none"
  /\ \E X \in Series :
       DirectStep(DirectCall(direct, "fit", X, StepFit(direct.st, X, direct.ext)))

\* transform of the frame the object was fitted on
F_transform ==
  /\ direct.op = "fit"
  /\ direct.ok
  /\ DirectStep(DirectCall(direct, "transform", direct.X,
                           StepTransform(direct.st, direct.X)))

F_fit_transform ==
  /\ direct.op = "none"
  /\ \E X \in Series :
       DirectStep(DirectCall(direct, "fit_transform", X,
                             StepFitTransform(direct.st, X, direct.ext)))

NextFit == F_fit \/ F_transform \/ F_fit_transform

SpecFit == InitFit /\ [][NextFit]_vars

\* what fit_transform(X) gives on a new object of the same variant
FitTransformOf(cls, p, X, ext) == StepFitTransform(NewStep(cls, p), X, ext)

SameOutcome(ft) ==
  /\ direct.ok = ft.ok
  /\ ft.ok => direct.out = ft.df

\* C28: for every variant fit returns the fitted transformer, and fit(X)
\* followed by transform(X) gives the frame that fit_transform(X) gives
C28_FitThenTransform ==
  /\ direct.op = "fit" /\ direct.ok => direct.ret = "self"
  /\ direct.op = "transform" =>
       SameOutcome(FitTransformOf(direct.st.cls, direct.st.p, direct.X, direct.ext))

NoDiscretization == direct.st.cls = "Discretize" /\ direct.st.p.discretization = "None"

\* C28, the variants it holds for: every one but HolidayTransformer, whose
\* fit returns nothing, and Discretize without a discretization, whose
\* transform raises
C28_OtherVariants ==
  /\ direct.op = "fit" /\ direct.ok /\ direct.st.cls # "HolidayTransformer"
       => direct.ret = "self"
  /\ direct.op = "transform" /\ ~NoDiscretization =>
       SameOutcome(FitTransformOf(direct.st.cls, direct.st.p, direct.X, direct.ext))

C28_FitReturnsNothing ==
  direct.op = "fit" /\ direct.ok /\ direct.ret = "None"

C28_TransformRaises ==
  /\ direct.op = "transform" /\ ~direct.ok /\ NoDiscretization
  /\ FitTransformOf(direct.st.cls, direct.st.p, direct.X, direct.ext).ok

\* ---------------------------------------------------------------------
\* the frame object the caller passes to a GeneralTransformer call
\* ---------------------------------------------------------------------
CallerPipelines ==
  { (0 :> Step("MeanDifference", DefaultParams)),
    (0 :> Step("DifferencedTransformer", DefaultParams)
     @@ 1 :> Step("MeanDifference", DefaultParams)),
    (0 :> Step("MeanDifference", DefaultParams)
     @@ 1 :> Step("ClipOutliers", DefaultParams)),
    (0 :> Step("MeanDifference", DefaultParams)
     @@ 2 :> Step("CumSumTransformer", DefaultParams)),
    (0 :> Step("MeanDifference", DefaultParams)
     @@ 1 :> Step("Round", DefaultParams)),
    (0 :> Step("CumSumTransformer", DefaultParams)
     @@ 2 :> Step("CenterLastValue", DefaultParams)) }

InitCaller ==
  /\ \E c \in CallerPipelines :
       /\ transformations = ("A" :> [k \in DOMAIN c |-> c[k].name])
       /\ transformation_params = ("A" :> [k \in DOMAIN c |-> c[k].p])
  /\ transformers = ("A" :> <<>>)
  /\ trans_dict = trans_dict_init
  /\ last = NoCall
  /\ ToolsIdle

\* the caller fits the instance, then transforms frames and takes frames
\* back, those the instance was never fitted on included
NextCaller ==
  \/ /\ last.op = "none"
     /\ \E df \in FitFrames, ext \in ExternalOutcomes : GT_fit("A", df, ext)
  \/ /\ last.op # "none"
     /\ \E df \in FitFrames : GT_transform("A", df)
  \/ /\ last.op # "none"
     /\ \E df \in FitFrames \cup InverseFrames,
           trans_method \in {"forecast", "original"}, fillzero \in BOOLEAN,
           bounds \in {"True", "False"} :
          GT_inverse_transform("A", df, trans_method, fillzero, bounds)

SpecCaller == InitCaller /\ [][NextCaller]_vars

\* C29: after fit, fit_transform and inverse_transform every cell of the
\* frame the caller passed in holds the value it held before the call
C29_CallerFrameKept ==
  last.op \in {"fit", "inverse_transform"} => last.caller = last.arg

\* C29, the calls it holds for: fit, fit_transform and transform keep the
\* caller's frame, and so does an inverse_transform in which no
\* MeanDifference step was called with the caller's own object
MeanDifferenceGotCallerFrame ==
  \E n \in 1..Len(last.trace) :
    /\ last.trace[n].name = "MeanDifference"
    /\ last.trace[n].inp = last.arg
    /\ \A m \in 1..(n - 1) : last.trace[m].out = last.trace[m].inp

C29_KeptButByMeanDifference ==
  /\ last.op \in {"fit", "transform"} => last.caller = last.arg
  /\ last.op = "inverse_transform" /\ ~MeanDifferenceGotCallerFrame
       => last.caller = last.arg

\* an inverse_transform that returned and left other cells in the frame
\* it was called with
C29_CallerFrameWritten ==
  /\ last.op = "inverse_transform"
  /\ last.status = "returned"
  /\ last.caller # last.arg
  /\ last.caller = last.df

\* ---------------------------------------------------------------------
\* CenterLastValue fitted on frames of finite numbers
\* ---------------------------------------------------------------------
MaxCenterLen == 3

MaxCenterRows == 2

CenterCells == {-2, 0, 1, 2}

\* frames of finite numbers, of one series and of two
CenterFrames ==
  UNION { { [t \in 1..n |-> <<R(f[t])>>] : f \in [1..n -> CenterCells] } :
          n \in 1..MaxCenterLen }
  \cup { IntFrame(<< <<2, 0>>, <<-2, 0>> >>), IntFrame(<< <<1, -2>>, <<0, 2>> >>) }

InitCenter ==
  /\ PipelineIdle
  /\ ToolsIdleOnly
  /\ local_linear_trend = NoLocalLinearTrend
  /\ seasonal_int_call = NoSeasonalInt
  /\ \E rows \in 1..MaxCenterRows :
       direct = DirectNew("CenterLastValue", [DefaultParams EXCEPT !.rows = rows])

CLV_fit_transform ==
  /\ direct.op = "none"
  /\ \E X \in CenterFrames :
       DirectStep(DirectCall(direct, "fit_transform", X,
                             StepFitTransform(direct.st, X, direct.ext)))

\* the frame transform returned goes back through inverse_transform
CLV_inverse_transform ==
  /\ direct.op = "fit_transform"
  /\ direct.ok
  /\ DirectStep(DirectCall(direct, "inverse_transform", direct.out,
                           StepInverse(direct.st, direct.out, "unset", "unset")))

NextCenter == CLV_fit_transform \/ CLV_inverse_transform

SpecCenter == InitCenter /\ [][NextCenter]_vars

FiniteNonZero(x) == ~IsNaN(x) /\ ~IsZero(x)

CenterFiniteNonZero ==
  \A j \in 1..Len(direct.st.center) : FiniteNonZero(direct.st.center[j])

\* C30: after fit on a frame of finite numbers the center of every column
\* is a finite non-zero number, and inverse_transform(transform(X)) = X
C30_CenterNonZeroAndRestores ==
  /\ direct.op \in {"fit_transform", "inverse_transform"} => CenterFiniteNonZero
  /\ direct.op = "inverse_transform" => direct.ok /\ direct.out = direct.X

\* C30, where it holds: the center is always finite, and the frame comes
\* back whenever the center has no zero
C30_RestoresUnlessZeroCenter ==
  /\ direct.op \in {"fit_transform", "inverse_transform"} =>
       \A j \in 1..Len(direct.st.center) : ~IsNaN(direct.st.center[j])
  /\ direct.op = "inverse_transform" /\ CenterFiniteNonZero =>
       direct.ok /\ direct.out = direct.X

\* a fit that left a zero center: the non-zero values of the column have
\* the median zero
C30_ZeroCenter ==
  /\ direct.op = "fit_transform"
  /\ direct.X = IntFrame(<< <<-2>>, <<2>>, <<0>> >>)
  /\ direct.st.p.rows = 1
  /\ direct.st.center = <<R(0)>>

====
